---- MODULE Spec2Model ----
(***************************************************************************)
(* Order-processing ledger of Groweasy-invoice: the document sequence      *)
(* store (core/sequence_manager.py), the order processor                   *)
(* (core/order_processor.py) and the inventory manager (core/inventory.py) *)
(* over a PostgreSQL database at READ COMMITTED: a transaction's writes    *)
(* become visible to the others when it commits, SELECT ... FOR UPDATE and *)
(* UPDATE wait for the row lock, plain SELECT reads the committed row.     *)
(***************************************************************************)
EXTENDS Integers, Sequences, FiniteSets, TLC

\* ------------------------------------------------------------------ bounds
Procs == {1, 2}            \* concurrent callers (request threads)
Users == {1, 2}            \* tenants
MaxCalls == 2              \* calls started in one behaviour
MaxStart == 1              \* largest counter value stored before the run
MaxStock == 2              \* largest stock of a product before the run
ProductIds == {1, 2, 3}    \* inventory_items ids (SERIAL)
MinLevel == 1              \* min_stock_level of the products
NoProc == 0

\* ------------------------------------------------------------------ state
VARIABLES
    seqTab,      \* document_sequences: (user_id, doc_type) -> next_number, 0 = no row
    items,       \* inventory_items: id -> row
    movements,   \* stock_movements rows, in commit order
    alerts,      \* stock_alerts rows
    invoices,    \* user_invoices rows
    porders,     \* purchase_orders rows
    customers,   \* customers rows
    suppliers,   \* suppliers rows
    rowLock,     \* inventory_items row locks: id -> holding caller or NoProc
    conns,       \* connections checked out of the engine's pool
    poolCap,     \* capacity of the pool
    pc,          \* position of each caller
    call,        \* the call each caller is running: op, user_id, payload
    loc,         \* locals of the call: number drawn, loop index
    tx,          \* uncommitted writes of the caller's open transaction
    outcome,     \* result of the caller's last finished call
    calls,       \* calls started so far
    seq0,        \* history: the counters before the run
    returned,    \* history: what get_next_number drew and returned per key, in order
    aborted      \* history: <<key, n>> drawn by an order that then failed

dbVars == <<items, movements, alerts, invoices, porders, customers, suppliers>>
vars == <<seqTab, items, movements, alerts, invoices, porders, customers, suppliers,
          rowLock, conns, poolCap, pc, call, loc, tx, outcome, calls,
          seq0, returned, aborted>>

\* ------------------------------------------------------------------ sequence store
DocTypes == {"INV", "PO"}
Keys == Users \X DocTypes

\* INSERT ... VALUES (.., 1, ..) ON CONFLICT DO UPDATE SET next_number = next_number + 1
\* RETURNING next_number; cur = 0 stands for "no row".
UpsertNoIncrement(cur) == IF cur = 0 THEN 1 ELSE cur

UpsertNext(cur) == IF cur = 0 THEN 1 ELSE cur + 1

RECURSIVE Digits(_)
Digits(n) == IF n < 10 THEN <<n>> ELSE Append(Digits(n \div 10), n % 10)

\* {number:05d}: decimal digits, zero-padded on the left to width 5
Pad5(n) == LET d == Digits(n)
           IN  IF Len(d) >= 5 THEN d ELSE [i \in 1..(5 - Len(d)) |-> 0] \o d

\* f"{prefix}-{number:05d}"
Format(prefix, n) == <<prefix, Pad5(n)>>

NoNumber == <<"", <<>>>>

\* ------------------------------------------------------------------ payloads
\* An order payload is a dict: keys holds the keys present; a line item's
\* product_id is 0 when it has no product reference (absent, None and 0 are all
\* falsy in `not item.get('product_id')`).
Item(pid, q) == [product_id |-> pid, qty |-> q]

\* `if not item.get('product_id'): continue` -- the lines that are stock-handled
HasProductRefAlways(it) == TRUE

HasProductRef(it) == it.product_id # 0
Num(v) == [kind |-> "num", val |-> v]
Text == [kind |-> "text", val |-> 0]
AllKeys == {"items", "client_name", "grand_total"}
Payload(its, client, total) ==
    [keys |-> AllKeys, items |-> its, client_name |-> client, grand_total |-> total]
EmptyPayload == [keys |-> {}, items |-> <<>>, client_name |-> "", grand_total |-> Num(0)]
NoTotalPayload(its, client) ==
    [keys |-> {"items", "client_name"}, items |-> its, client_name |-> client,
     grand_total |-> Num(0)]

\* order_data.get('grand_total', 0)
GrandTotal(pl) == IF "grand_total" \in pl.keys THEN pl.grand_total ELSE Num(0)

\* _validate_order_data: "" when the payload is accepted, else the message of
\* the InvalidOrderDataError raised
ValidateAcceptAll(pl) == ""

ValidateOrderData(pl) ==
    IF pl.keys = {} THEN "Order data is empty"
    ELSE IF "items" \notin pl.keys \/ pl.items = <<>>
         THEN "Order must contain at least one item"
    ELSE IF "client_name" \notin pl.keys \/ pl.client_name = ""
         THEN "Client/Supplier name is required"
    ELSE IF GrandTotal(pl).kind # "num" THEN "Invalid grand total value"
    ELSE IF GrandTotal(pl).val < 0 THEN "Grand total cannot be negative"
    ELSE ""

\* ------------------------------------------------------------------ rows
NoItem == [exists |-> FALSE, user |-> 0, stock |-> 0, min |-> 0, active |-> FALSE]
Movement(u, pid, mt, q, ref) ==
    [user |-> u, product |-> pid, mtype |-> mt, qty |-> q, ref |-> ref]
Alert(u, pid, at) == [user |-> u, product |-> pid, atype |-> at]
Doc(u, number, pl) ==
    [user |-> u, number |-> number, client |-> pl.client_name,
     total |-> GrandTotal(pl).val, data |-> pl]
Party(u, name, amount) == [user |-> u, name |-> name, count |-> 1, total |-> amount]

NoCp == [kind |-> "none", idx |-> 0, name |-> "", amount |-> 0]
NoTx == [stock |-> [i \in ProductIds |-> 0], wrote |-> {}, movs |-> <<>>,
         alert |-> [i \in ProductIds |-> "keep"], docs |-> <<>>, cp |-> NoCp]
NoPayload == EmptyPayload
NoCall == [op |-> "none", user |-> 0, pl |-> NoPayload, doc |-> "", prod |-> 0, qty |-> 0]
NoLoc == [number |-> NoNumber, n |-> 0, idx |-> 0, read |-> 0]
Out(t, number, req, avail) ==
    [type |-> t, number |-> number, requested |-> req, available |-> avail]
NoOut == Out("none", NoNumber, 0, 0)

\* ------------------------------------------------------------------ transactions
\* the caller's view of a row's current_stock: its own uncommitted write, else
\* the committed value
StockView(p, id) == IF id \in tx[p].wrote THEN tx[p].stock[id] ELSE items[id].stock

\* WHERE id = :product_id AND user_id = :user_id
RowForAnyTenant(u, id) == id \in ProductIds /\ items[id].exists

RowFor(u, id) == id \in ProductIds /\ items[id].exists /\ items[id].user = u

\* SELECT ... FOR UPDATE and UPDATE wait while another transaction holds the row
CanLockNoWait(p, id) == TRUE

\* (a lock on the whole table in place of the row)
CanLockTable(p, id) == \A i \in ProductIds : rowLock[i] \in {NoProc, p}

CanLock(p, id) == rowLock[id] \in {NoProc, p}

\* (the row locks of a finished transaction stay behind)
KeepLocks(p) == rowLock

\* COMMIT / ROLLBACK releases every row lock of the transaction
Unlocked(p) == [i \in ProductIds |-> IF rowLock[i] = p THEN NoProc ELSE rowLock[i]]

\* _manage_stock_alerts: the alert left for the product after DELETE + INSERT
AlertFor(new_stock, min_stock) ==
    IF new_stock = 0 THEN "out_of_stock"
    ELSE IF new_stock <= min_stock THEN "low_stock"
    ELSE "none"

\* quantity_change: the quantity logged in stock_movements
QuantityChangeUnsigned(otype, quantity) == quantity

QuantityChange(otype, quantity) == IF otype = "PURCHASE" THEN quantity ELSE 0 - quantity

\* _process_inventory_movements: the loop over the line items, on the
\* transaction's own view (the rows it reads are locked by this transaction)
RECURSIVE MoveItems(_, _, _, _, _)
MoveItems(t, u, its, otype, ref) ==
    IF its = <<>> THEN t
    ELSE LET it == Head(its)
             id == it.product_id
         IN  IF ~HasProductRef(it) \/ ~RowFor(u, id)
             THEN MoveItems(t, u, Tail(its), otype, ref)
             ELSE LET cur == IF id \in t.wrote THEN t.stock[id] ELSE items[id].stock
                      new == IF otype = "PURCHASE" THEN cur + it.qty ELSE cur - it.qty
                      mv  == Movement(u, id,
                                      IF otype = "PURCHASE" THEN "purchase" ELSE "sale",
                                      QuantityChange(otype, it.qty), ref)
                      t2  == [t EXCEPT !.stock[id] = new,
                                       !.wrote = @ \cup {id},
                                       !.movs = Append(@, mv),
                                       !.alert[id] = AlertFor(new, items[id].min)]
                  IN  MoveItems(t2, u, Tail(its), otype, ref)

\* the alert rows a committing transaction inserts, by product id
RECURSIVE NewAlerts(_, _, _)
NewAlerts(t, u, ids) ==
    IF ids = {} THEN <<>>
    ELSE LET id == CHOOSE i \in ids : \A j \in ids : i <= j
             rest == NewAlerts(t, u, ids \ {id})
         IN  IF t.alert[id] \in {"low_stock", "out_of_stock"}
             THEN <<Alert(u, id, t.alert[id])>> \o rest
             ELSE rest

\* DELETE FROM stock_alerts WHERE product_id = :product_id AND user_id = :user_id:
\* the rows that stay
KeepEveryAlert(t, u, a) == TRUE

KeepAlert(t, u, a) == ~(a.user = u /\ t.alert[a.product] # "keep")

RECURSIVE FilterAlerts(_, _, _)
FilterAlerts(t, u, as) ==
    IF as = <<>> THEN <<>>
    ELSE IF KeepAlert(t, u, Head(as))
         THEN <<Head(as)>> \o FilterAlerts(t, u, Tail(as))
         ELSE FilterAlerts(t, u, Tail(as))

\* the counterparty table after the transaction's upsert
CpApply(tab, u, cp) ==
    IF cp.kind = "ins" THEN Append(tab, Party(u, cp.name, cp.amount))
    ELSE IF cp.kind = "upd"
         THEN [tab EXCEPT ![cp.idx] = [@ EXCEPT !.count = @ + 1, !.total = @ + cp.amount]]
    ELSE tab

\* SELECT id FROM customers WHERE user_id = :user_id AND name = :name; 0 = no row
CpFind(tab, u, name) ==
    LET hit == {i \in 1..Len(tab) : tab[i].user = u /\ tab[i].name = name}
    IN  IF hit = {} THEN 0 ELSE CHOOSE i \in hit : \A j \in hit : i <= j

IsSale(p) == call[p].op = "sale"

\* another open transaction has updated this counterparty row (holds its lock)
CpLocked(p, idx) ==
    \E q \in Procs \ {p} : /\ call[q].op = call[p].op
                          /\ tx[q].cp.kind = "upd"
                          /\ tx[q].cp.idx = idx

\* ------------------------------------------------------------------ commit / rollback
Tables == [items |-> items, movements |-> movements, alerts |-> alerts,
           invoices |-> invoices, porders |-> porders,
           customers |-> customers, suppliers |-> suppliers]

\* the committed tables once p's transaction has committed
TablesAfterCommit(p) ==
    LET t == tx[p]
        u == call[p].user
    IN  [items     |-> [i \in ProductIds |->
                          IF i \in t.wrote THEN [items[i] EXCEPT !.stock = t.stock[i]]
                          ELSE items[i]],
         movements |-> movements \o t.movs,
         alerts    |-> FilterAlerts(t, u, alerts) \o NewAlerts(t, u, ProductIds),
         invoices  |-> IF IsSale(p) THEN invoices \o t.docs ELSE invoices,
         porders   |-> IF call[p].op = "purchase" THEN porders \o t.docs ELSE porders,
         customers |-> IF IsSale(p) THEN CpApply(customers, u, t.cp) ELSE customers,
         suppliers |-> IF call[p].op = "purchase" THEN CpApply(suppliers, u, t.cp)
                       ELSE suppliers]

\* the committed tables once p's transaction has rolled back: the exception
\* leaves the `with DB_ENGINE.begin()` block and nothing it wrote is kept
RollbackKeepsDocument(p) ==
    [Tables EXCEPT !.invoices = IF IsSale(p) THEN invoices \o tx[p].docs ELSE invoices,
                   !.porders = IF call[p].op = "purchase" THEN porders \o tx[p].docs
                               ELSE porders]

TablesAfterRollback(p) == Tables

SetTables(r) ==
    /\ items' = r.items
    /\ movements' = r.movements
    /\ alerts' = r.alerts
    /\ invoices' = r.invoices
    /\ porders' = r.porders
    /\ customers' = r.customers
    /\ suppliers' = r.suppliers

\* DOC_TYPE_SALE / DOC_TYPE_PURCHASE and the prefix passed to get_next_number
DocTypeAlwaysInv(op) == "INV"

DocTypeOf(op) == IF op = "purchase" THEN "PO" ELSE "INV"
\* the row of document_sequences a call addresses: WHERE (user_id, doc_type)
KeyOfDocTypeOnly(p) == <<1, call[p].doc>>

KeyOf(p) == <<call[p].user, call[p].doc>>
InTxn(p) == pc[p] \in {"number", "lock", "save", "move", "cust", "commit"}
          /\ call[p].op \in {"sale", "purchase"}
Drawn(p) == pc[p] \in {"lock", "save", "move", "cust", "commit"}

\* document_sequences once p's transaction has rolled back: the increment was
\* committed by get_next_number's own transaction and stays
SeqRolledBackToo(p) ==
    IF Drawn(p) THEN [seqTab EXCEPT ![KeyOf(p)] = @ - 1] ELSE seqTab

SeqAfterRollback(p) == seqTab

\* the transaction ends without committing and the call raises `out`
Abort(p, out) ==
    /\ SetTables(TablesAfterRollback(p))
    /\ seqTab' = SeqAfterRollback(p)
    /\ tx' = [tx EXCEPT ![p] = NoTx]
    /\ rowLock' = Unlocked(p)
    /\ conns' = conns - 1
    /\ pc' = [pc EXCEPT ![p] = "done"]
    /\ outcome' = [outcome EXCEPT ![p] = out]
    /\ aborted' = IF Drawn(p) THEN aborted \cup {<<KeyOf(p), loc[p].n>>} ELSE aborted
    /\ UNCHANGED <<poolCap, call, loc, calls, seq0, returned>>

\* ------------------------------------------------------------------ order processor
\* process_sale_invoice / process_purchase_order up to `with DB_ENGINE.begin()`
CallOrder(p, op, u, pl) ==
    /\ pc[p] = "idle"
    /\ calls < MaxCalls
    /\ calls' = calls + 1
    /\ call' = [call EXCEPT ![p] = [NoCall EXCEPT !.op = op, !.user = u, !.pl = pl,
                                                  !.doc = DocTypeOf(op)]]
    /\ loc' = [loc EXCEPT ![p] = NoLoc]
    /\ IF ValidateOrderData(pl) # ""
       THEN /\ pc' = [pc EXCEPT ![p] = "done"]
            /\ outcome' = [outcome EXCEPT ![p] = Out("InvalidOrderDataError", NoNumber, 0, 0)]
            /\ conns' = conns
       ELSE /\ conns < poolCap
            /\ conns' = conns + 1
            /\ pc' = [pc EXCEPT ![p] = "number"]
            /\ outcome' = [outcome EXCEPT ![p] = NoOut]
    /\ UNCHANGED <<seqTab, dbVars, rowLock, poolCap, tx, seq0, returned, aborted>>

\* SequenceManager.get_next_number: its own `with DB_ENGINE.begin()` on a
\* connection of its own; the UPSERT and the commit that follows it
GetNextNumber(p) ==
    /\ pc[p] = "number"
    /\ conns < poolCap
    /\ LET k == KeyOf(p)
           n == UpsertNext(seqTab[k])
       IN  /\ seqTab' = [seqTab EXCEPT ![k] = n]
           /\ returned' = [returned EXCEPT ![k] =
                             Append(@, [n |-> n, number |-> Format(call[p].doc, n)])]
           /\ loc' = [loc EXCEPT ![p] = [@ EXCEPT !.number = Format(call[p].doc, n),
                                                   !.n = n, !.idx = 1]]
           /\ IF call[p].op = "next"
              THEN /\ pc' = [pc EXCEPT ![p] = "done"]
                   /\ outcome' = [outcome EXCEPT ![p] = Out("ok", Format(call[p].doc, n), 0, 0)]
              ELSE /\ pc' = [pc EXCEPT ![p] = "lock"]
                   /\ outcome' = outcome
    /\ UNCHANGED <<dbVars, rowLock, conns, poolCap, call, tx, calls, seq0, aborted>>

\* one iteration of the loop of _lock_and_validate_stock (sale) or
\* _lock_inventory_rows (purchase)
LockItem(p) ==
    /\ pc[p] = "lock"
    /\ LET its == call[p].pl.items
           i   == loc[p].idx
       IN  IF i > Len(its)
           THEN /\ pc' = [pc EXCEPT ![p] = "save"]
                /\ UNCHANGED <<seqTab, dbVars, rowLock, conns, poolCap, call, loc, tx,
                               outcome, calls, seq0, returned, aborted>>
           ELSE LET id == its[i].product_id
                    next == /\ loc' = [loc EXCEPT ![p] = [@ EXCEPT !.idx = i + 1]]
                            /\ UNCHANGED <<seqTab, dbVars, conns, poolCap, pc, call, tx,
                                           outcome, calls, seq0, returned, aborted>>
                IN  IF ~HasProductRef(its[i])
                    THEN next /\ rowLock' = rowLock
                    ELSE IF ~RowFor(call[p].user, id)
                    THEN Abort(p, Out("ProductNotFoundError", NoNumber, 0, 0))
                    ELSE /\ CanLock(p, id)
                         /\ IF ~items[id].active
                            THEN Abort(p, Out("ProductNotFoundError", NoNumber, 0, 0))
                            ELSE IF IsSale(p) /\ StockView(p, id) < its[i].qty
                            THEN Abort(p, Out("InsufficientStockError", NoNumber,
                                              its[i].qty, StockView(p, id)))
                            ELSE next /\ rowLock' = [rowLock EXCEPT ![id] = p]

\* _save_invoice / _save_purchase_order
SaveDocument(p) ==
    /\ pc[p] = "save"
    /\ tx' = [tx EXCEPT ![p] = [@ EXCEPT !.docs = <<Doc(call[p].user, loc[p].number,
                                                        call[p].pl)>>]]
    /\ pc' = [pc EXCEPT ![p] = "move"]
    /\ UNCHANGED <<seqTab, dbVars, rowLock, conns, poolCap, call, loc, outcome, calls,
                   seq0, returned, aborted>>

\* _process_inventory_movements
ProcessInventoryMovements(p) ==
    /\ pc[p] = "move"
    /\ tx' = [tx EXCEPT ![p] = MoveItems(@, call[p].user, call[p].pl.items,
                                        IF IsSale(p) THEN "SALE" ELSE "PURCHASE",
                                        loc[p].number)]
    /\ pc' = [pc EXCEPT ![p] = "cust"]
    /\ UNCHANGED <<seqTab, dbVars, rowLock, conns, poolCap, call, loc, outcome, calls,
                   seq0, returned, aborted>>

\* _update_customer_record / _update_supplier_record
UpdateCounterparty(p) ==
    /\ pc[p] = "cust"
    /\ LET tab == IF IsSale(p) THEN customers ELSE suppliers
           name == call[p].pl.client_name
           idx == CpFind(tab, call[p].user, name)
           amount == GrandTotal(call[p].pl).val
       IN  /\ idx # 0 => ~CpLocked(p, idx)
           /\ tx' = [tx EXCEPT ![p] = [@ EXCEPT !.cp =
                       [kind |-> IF idx = 0 THEN "ins" ELSE "upd", idx |-> idx,
                        name |-> name, amount |-> amount]]]
    /\ pc' = [pc EXCEPT ![p] = "commit"]
    /\ UNCHANGED <<seqTab, dbVars, rowLock, conns, poolCap, call, loc, outcome, calls,
                   seq0, returned, aborted>>

\* the `with DB_ENGINE.begin()` block is left normally: COMMIT
Commit(p) ==
    /\ pc[p] = "commit"
    /\ SetTables(TablesAfterCommit(p))
    /\ tx' = [tx EXCEPT ![p] = NoTx]
    /\ rowLock' = Unlocked(p)
    /\ conns' = conns - 1
    /\ pc' = [pc EXCEPT ![p] = "done"]
    /\ outcome' = [outcome EXCEPT ![p] = Out("ok", loc[p].number, 0, 0)]
    /\ UNCHANGED <<seqTab, poolCap, call, loc, calls, seq0, returned, aborted>>

\* COMMIT itself fails: the exception is raised outside the try block
CommitFail(p) ==
    /\ pc[p] = "commit"
    /\ Abort(p, Out("DatabaseError", NoNumber, 0, 0))

\* a statement of the transaction raises an unexpected exception (connection
\* lost, get_next_number failing before its commit): wrapped by `except Exception`
Fault(p) ==
    /\ pc[p] \in {"number", "lock", "save", "move", "cust"}
    /\ call[p].op \in {"sale", "purchase"}
    /\ Abort(p, Out("OrderProcessingError", NoNumber, 0, 0))

\* the caller returns and may issue another call
Return(p) ==
    /\ pc[p] = "done"
    /\ calls < MaxCalls
    /\ pc' = [pc EXCEPT ![p] = "idle"]
    /\ call' = [call EXCEPT ![p] = NoCall]
    /\ loc' = [loc EXCEPT ![p] = NoLoc]
    /\ outcome' = [outcome EXCEPT ![p] = NoOut]
    /\ UNCHANGED <<seqTab, dbVars, rowLock, conns, poolCap, tx, calls,
                   seq0, returned, aborted>>

\* ------------------------------------------------------------------ lock waits
\* p's FOR UPDATE is waiting for a row lock another transaction holds
Waiting(p) ==
    /\ pc[p] = "lock"
    /\ loc[p].idx <= Len(call[p].pl.items)
    /\ LET id == call[p].pl.items[loc[p].idx].product_id
       IN  id # 0 /\ RowFor(call[p].user, id) /\ ~CanLock(p, id)

WaitsFor(p) == rowLock[call[p].pl.items[loc[p].idx].product_id]

\* PostgreSQL's deadlock detector aborts a transaction of a wait cycle; the
\* error is raised inside the try block
DeadlockAbort(p) ==
    /\ Waiting(p)
    /\ Waiting(WaitsFor(p))
    /\ WaitsFor(WaitsFor(p)) = p
    /\ Abort(p, Out("OrderProcessingError", NoNumber, 0, 0))

\* ------------------------------------------------------------------ inventory manager
CallInventory(p, op, u, id, q) ==
    /\ pc[p] = "idle"
    /\ calls < MaxCalls
    /\ calls' = calls + 1
    /\ call' = [call EXCEPT ![p] = [NoCall EXCEPT !.op = op, !.user = u, !.prod = id,
                                                  !.qty = q]]
    /\ loc' = [loc EXCEPT ![p] = NoLoc]
    /\ outcome' = [outcome EXCEPT ![p] = NoOut]
    /\ pc' = [pc EXCEPT ![p] = op]
    /\ UNCHANGED <<seqTab, dbVars, rowLock, conns, poolCap, tx, seq0, returned, aborted>>

Finish(p, t) ==
    /\ pc' = [pc EXCEPT ![p] = "done"]
    /\ outcome' = [outcome EXCEPT ![p] = Out(t, NoNumber, 0, 0)]

\* SERIAL id of the next inserted row; 0 when the ids of the model are used up
FreshId == IF \A i \in ProductIds : items[i].exists THEN 0
           ELSE CHOOSE i \in ProductIds :
                    ~items[i].exists /\ \A j \in ProductIds : ~items[j].exists => i <= j

\* (an UPDATE of the newest row in place of the INSERT)
LogReplacesLast(ms, m) == IF ms = <<>> THEN <<m>> ELSE [ms EXCEPT ![Len(ms)] = m]

\* INSERT INTO stock_movements (...) VALUES (...)
LogMovement(ms, m) == Append(ms, m)

\* InventoryManager.add_product: one transaction, INSERT the item and, when
\* current_stock > 0, its 'initial' movement
AddProduct(p) ==
    /\ pc[p] = "add"
    /\ conns < poolCap
    /\ FreshId # 0
    /\ LET id == FreshId
           u == call[p].user
           s == call[p].qty
       IN  /\ items' = [items EXCEPT ![id] = [exists |-> TRUE, user |-> u, stock |-> s,
                                              min |-> MinLevel, active |-> TRUE]]
           /\ movements' = IF s > 0
                           THEN LogMovement(movements, Movement(u, id, "initial", s, NoNumber))
                           ELSE movements
    /\ Finish(p, "ok")
    /\ UNCHANGED <<seqTab, alerts, invoices, porders, customers, suppliers, rowLock, conns,
                   poolCap, call, loc, tx, calls, seq0, returned, aborted>>

\* InventoryManager.update_product, first statement: SELECT current_stock (no lock)
UpdateProductRead(p) ==
    /\ pc[p] = "update"
    /\ conns < poolCap
    /\ IF ~RowFor(call[p].user, call[p].prod)
       THEN /\ Finish(p, "False")
            /\ UNCHANGED <<conns, loc>>
       ELSE /\ loc' = [loc EXCEPT ![p] = [@ EXCEPT !.read = items[call[p].prod].stock]]
            /\ conns' = conns + 1
            /\ pc' = [pc EXCEPT ![p] = "update_write"]
            /\ outcome' = outcome
    /\ UNCHANGED <<seqTab, dbVars, rowLock, poolCap, call, tx, calls, seq0, returned, aborted>>

\* the delta update_product logs: target minus the stock it read
AdjustmentDelta(target, read) == target - read

\* InventoryManager.update_product, the rest: UPDATE (waits for the row lock),
\* then, when current_stock is given and differs from the value read, the
\* 'adjustment' movement and UPDATE current_stock; COMMIT.  qty = -1 stands for
\* a product_data without current_stock.
UpdateProductWrite(p) ==
    /\ pc[p] = "update_write"
    /\ CanLock(p, call[p].prod)
    /\ LET id == call[p].prod
           new == call[p].qty
       IN  IF new # -1 /\ new # loc[p].read
           THEN /\ movements' = LogMovement(movements,
                      Movement(call[p].user, id, "adjustment",
                               AdjustmentDelta(new, loc[p].read), NoNumber))
                /\ items' = [items EXCEPT ![id] = [@ EXCEPT !.stock = new]]
           ELSE UNCHANGED <<items, movements>>
    /\ conns' = conns - 1
    /\ Finish(p, "ok")
    /\ UNCHANGED <<seqTab, alerts, invoices, porders, customers, suppliers, rowLock,
                   poolCap, call, loc, tx, calls, seq0, returned, aborted>>

\* update_stock_delta never refuses a result (the 'Prevent negative stock' test left out)
DeltaNeverRejected(new_stock) == FALSE

\* update_stock_delta: if new_stock < 0: return False
DeltaRejected(new_stock) == new_stock < 0

\* InventoryManager.update_stock_delta: SELECT ... FOR UPDATE, the check, the
\* UPDATE, the movement and the COMMIT of one transaction
UpdateStockDelta(p) ==
    /\ pc[p] = "delta"
    /\ conns < poolCap
    /\ LET id == call[p].prod
           u == call[p].user
       IN  IF ~(RowFor(u, id) /\ items[id].active)
           THEN UNCHANGED <<items, movements>> /\ Finish(p, "False")
           ELSE /\ CanLock(p, id)
                /\ LET new_stock == items[id].stock + call[p].qty
                   IN  IF DeltaRejected(new_stock)
                       THEN UNCHANGED <<items, movements>> /\ Finish(p, "False")
                       ELSE /\ items' = [items EXCEPT ![id] = [@ EXCEPT !.stock = new_stock]]
                            /\ movements' = LogMovement(movements,
                                   Movement(u, id, call[p].doc, call[p].qty, NoNumber))
                            /\ Finish(p, "ok")
    /\ UNCHANGED <<seqTab, alerts, invoices, porders, customers, suppliers, rowLock, conns,
                   poolCap, call, loc, tx, calls, seq0, returned, aborted>>

\* InventoryManager.delete_product: UPDATE ... SET is_active = FALSE WHERE id AND
\* user_id AND is_active = TRUE RETURNING id (waits for the row lock), COMMIT
DeleteProduct(p) ==
    /\ pc[p] = "delete"
    /\ conns < poolCap
    /\ LET id == call[p].prod
       IN  IF ~(RowFor(call[p].user, id) /\ items[id].active)
           THEN items' = items /\ Finish(p, "False")
           ELSE /\ CanLock(p, id)
                /\ items' = [items EXCEPT ![id] = [@ EXCEPT !.active = FALSE]]
                /\ Finish(p, "ok")
    /\ UNCHANGED <<seqTab, movements, alerts, invoices, porders, customers, suppliers,
                   rowLock, conns, poolCap, call, loc, tx, calls, seq0, returned, aborted>>

\* ------------------------------------------------------------------ initial states
\* The products before the run were added by add_product, which logs an
\* 'initial' movement when the stock is positive and creates no alert.
InitialItems(s1, s2) ==
    [i \in ProductIds |->
        IF i > 2 THEN NoItem
        ELSE [exists |-> TRUE, user |-> 1, stock |-> IF i = 1 THEN s1 ELSE s2,
              min |-> MinLevel, active |-> TRUE]]

RECURSIVE InitialMovements(_, _)
InitialMovements(its, ids) ==
    IF ids = {} THEN <<>>
    ELSE LET id == CHOOSE i \in ids : \A j \in ids : i <= j
             rest == InitialMovements(its, ids \ {id})
         IN  IF its[id].exists /\ its[id].stock > 0
             THEN <<Movement(its[id].user, id, "initial", its[id].stock, NoNumber)>> \o rest
             ELSE rest

\* no call is running
InitRun ==
    /\ seq0 = seqTab
    /\ rowLock = [i \in ProductIds |-> NoProc]
    /\ conns = 0
    /\ pc = [p \in Procs |-> "idle"]
    /\ call = [p \in Procs |-> NoCall]
    /\ loc = [p \in Procs |-> NoLoc]
    /\ tx = [p \in Procs |-> NoTx]
    /\ outcome = [p \in Procs |-> NoOut]
    /\ calls = 0
    /\ returned = [k \in Keys |-> <<>>]
    /\ aborted = {}

InitCommon ==
    /\ movements = InitialMovements(items, ProductIds)
    /\ alerts = <<>>
    /\ invoices = <<>>
    /\ porders = <<>>
    /\ customers = <<>>
    /\ suppliers = <<>>
    /\ InitRun

\* create_engine(DATABASE_URL): QueuePool, pool_size 5 + max_overflow 10
DefaultPool == 15

\* ------------------------------------------------------------------ orders only
SaleItems ==
    {<<Item(1, 1)>>, <<Item(1, 2)>>, <<Item(1, 1), Item(2, 1)>>, <<Item(2, 1), Item(1, 1)>>}
PurchaseItems == {<<Item(1, 1)>>, <<Item(2, 1), Item(1, 1)>>}
InvalidPayloads ==
    {EmptyPayload, Payload(<<>>, "acme", Num(5)), Payload(<<Item(1, 1)>>, "", Num(5)),
     Payload(<<Item(1, 1)>>, "acme", Num(-1)), Payload(<<Item(1, 1)>>, "acme", Text)}
SalePayloads == {Payload(its, "acme", Num(5)) : its \in SaleItems} \cup InvalidPayloads
PurchasePayloads ==
    {Payload(its, "acme", Num(5)) : its \in PurchaseItems}
        \cup {NoTotalPayload(<<>>, "acme")}

InitOrders ==
    /\ \E c \in {0, MaxStart} : seqTab = [k \in Keys |-> c]
    /\ items = InitialItems(MaxStock, 1)
    /\ poolCap = DefaultPool
    /\ InitCommon

NextOrders ==
    \E p \in Procs :
        \/ \E pl \in SalePayloads : CallOrder(p, "sale", 1, pl)
        \/ \E pl \in PurchasePayloads : CallOrder(p, "purchase", 1, pl)
        \/ GetNextNumber(p)
        \/ LockItem(p)
        \/ SaveDocument(p)
        \/ ProcessInventoryMovements(p)
        \/ UpdateCounterparty(p)
        \/ Commit(p)
        \/ CommitFail(p)
        \/ Fault(p)
        \/ DeadlockAbort(p)
        \/ Return(p)

SpecOrders == InitOrders /\ [][NextOrders]_vars

\* ------------------------------------------------------------------ sequence store alone
\* a direct call of SequenceManager.get_next_number(user_id, doc_type, prefix)
CallNext(p, u, d) ==
    /\ pc[p] = "idle"
    /\ calls < MaxCalls
    /\ calls' = calls + 1
    /\ call' = [call EXCEPT ![p] = [NoCall EXCEPT !.op = "next", !.user = u, !.doc = d]]
    /\ loc' = [loc EXCEPT ![p] = NoLoc]
    /\ outcome' = [outcome EXCEPT ![p] = NoOut]
    /\ pc' = [pc EXCEPT ![p] = "number"]
    /\ UNCHANGED <<seqTab, dbVars, rowLock, conns, poolCap, tx, seq0, returned, aborted>>

\* the UPSERT or the commit of get_next_number raises: its transaction rolls back
NextFault(p) ==
    /\ pc[p] = "number"
    /\ call[p].op = "next"
    /\ Finish(p, "DatabaseError")
    /\ UNCHANGED <<seqTab, dbVars, rowLock, conns, poolCap, call, loc, tx, calls, seq0,
                   returned, aborted>>

InitSeq ==
    /\ seqTab \in [Keys -> 0..MaxStart]
    /\ items = InitialItems(MaxStock, 1)
    /\ poolCap = DefaultPool
    /\ InitCommon

NextSeq ==
    \E p \in Procs :
        \/ \E u \in Users, d \in DocTypes : CallNext(p, u, d)
        \/ GetNextNumber(p)
        \/ NextFault(p)
        \/ Return(p)

SpecSeq == InitSeq /\ [][NextSeq]_vars

\* ------------------------------------------------------------------ sequence manager, all operations
\* a direct call of SequenceManager.reset_sequence(user_id, doc_type, start_number)
\* or SequenceManager.get_current_number(user_id, doc_type)
CallSequence(p, op, u, d, start) ==
    /\ pc[p] = "idle"
    /\ calls < MaxCalls
    /\ calls' = calls + 1
    /\ call' = [call EXCEPT ![p] = [NoCall EXCEPT !.op = op, !.user = u, !.doc = d,
                                                  !.qty = start]]
    /\ loc' = [loc EXCEPT ![p] = NoLoc]
    /\ outcome' = [outcome EXCEPT ![p] = NoOut]
    /\ pc' = [pc EXCEPT ![p] = op]
    /\ UNCHANGED <<seqTab, dbVars, rowLock, conns, poolCap, tx, seq0, returned, aborted>>

\* INSERT ... VALUES (.., :start_number, ..) ON CONFLICT DO UPDATE SET
\* next_number = :start_number: the value stored afterwards
ResetDeletesRow(cur, start) == 0

ResetValue(cur, start) == start

\* SequenceManager.reset_sequence: the UPSERT and its commit
ResetSequence(p) ==
    /\ pc[p] = "reset"
    /\ conns < poolCap
    /\ seqTab' = [seqTab EXCEPT ![KeyOf(p)] = ResetValue(@, call[p].qty)]
    /\ Finish(p, "ok")
    /\ UNCHANGED <<dbVars, rowLock, conns, poolCap, call, loc, tx, calls, seq0,
                   returned, aborted>>

\* `return result[0] if result else 0`, cur = 0 standing for "no row"
CurrentValueNext(cur) == cur + 1

CurrentValue(cur) == IF cur = 0 THEN 0 ELSE cur

\* SequenceManager.get_current_number: SELECT next_number; the value returned
\* is kept in loc.read
GetCurrentNumber(p) ==
    /\ pc[p] = "current"
    /\ conns < poolCap
    /\ loc' = [loc EXCEPT ![p] = [@ EXCEPT !.read = CurrentValue(seqTab[KeyOf(p)])]]
    /\ Finish(p, "ok")
    /\ UNCHANGED <<seqTab, dbVars, rowLock, conns, poolCap, call, tx, calls, seq0,
                   returned, aborted>>

\* start_number values passed to reset_sequence
ResetStarts == 1..(MaxStart + 2)

NextSeqOps ==
    \E p \in Procs :
        \/ \E u \in Users, d \in DocTypes : CallNext(p, u, d)
        \/ \E u \in Users, d \in DocTypes, s \in ResetStarts :
               CallSequence(p, "reset", u, d, s)
        \/ \E u \in Users, d \in DocTypes : CallSequence(p, "current", u, d, 0)
        \/ GetNextNumber(p)
        \/ ResetSequence(p)
        \/ GetCurrentNumber(p)
        \/ NextFault(p)
        \/ Return(p)

SpecSeqOps == InitOrders /\ [][NextSeqOps]_vars

\* ------------------------------------------------------------------ sequence reads
\* get_current_number calls among get_next_number calls
NextSeqRead ==
    \E p \in Procs :
        \/ \E u \in Users, d \in DocTypes : CallNext(p, u, d)
        \/ \E u \in Users, d \in DocTypes : CallSequence(p, "current", u, d, 0)
        \/ GetNextNumber(p)
        \/ GetCurrentNumber(p)
        \/ NextFault(p)
        \/ Return(p)

SpecSeqRead == InitOrders /\ [][NextSeqRead]_vars

\* ------------------------------------------------------------------ the whole ledger
LedgerItems == {<<Item(1, 1)>>, <<Item(1, 2)>>, <<Item(1, 2), Item(1, 1)>>}
LedgerPayloads == {Payload(its, "acme", Num(5)) : its \in LedgerItems}

Init ==
    /\ seqTab = [k \in Keys |-> 0]
    /\ items = InitialItems(MaxStock, 1)
    /\ poolCap = DefaultPool
    /\ InitCommon

Next ==
    \E p \in Procs :
        \/ \E op \in {"sale", "purchase"}, pl \in LedgerPayloads : CallOrder(p, op, 1, pl)
        \/ \E s \in 0..MaxStock : CallInventory(p, "add", 1, 0, s)
        \/ \E s \in 0..MaxStock : CallInventory(p, "update", 1, 1, s)
        \/ \E d \in {-1, 1} : CallInventory(p, "delta", 1, 1, d)
        \/ GetNextNumber(p)
        \/ LockItem(p)
        \/ SaveDocument(p)
        \/ ProcessInventoryMovements(p)
        \/ UpdateCounterparty(p)
        \/ Commit(p)
        \/ CommitFail(p)
        \/ Fault(p)
        \/ AddProduct(p)
        \/ UpdateProductRead(p)
        \/ UpdateProductWrite(p)
        \/ UpdateStockDelta(p)
        \/ Return(p)

Spec == Init /\ [][Next]_vars

\* ------------------------------------------------------------------ disjoint products
\* Orders of one tenant on one product each, for a customer that has a row
\* ("acme", from the sale of an unstocked line committed before the run) or
\* has none ("bolt").
FirstSale == Payload(<<Item(0, 1)>>, "acme", Num(5))
DisjointItems == {<<Item(1, 1)>>, <<Item(2, 1)>>}
DisjointPayloads ==
    {Payload(its, name, Num(5)) : its \in DisjointItems, name \in {"acme", "bolt"}}

InitDisjoint ==
    /\ seqTab = [k \in Keys |-> IF k = <<1, "INV">> THEN 1 ELSE 0]
    /\ items = InitialItems(MaxStock, MaxStock)
    /\ movements = InitialMovements(items, ProductIds)
    /\ alerts = <<>>
    /\ invoices = <<Doc(1, Format("INV", 1), FirstSale)>>
    /\ porders = <<>>
    /\ customers = <<Party(1, "acme", GrandTotal(FirstSale).val)>>
    /\ suppliers = <<>>
    /\ poolCap = DefaultPool
    /\ InitRun

NextDisjoint ==
    \E p \in Procs :
        \/ \E op \in {"sale", "purchase"}, pl \in DisjointPayloads : CallOrder(p, op, 1, pl)
        \/ GetNextNumber(p)
        \/ LockItem(p)
        \/ SaveDocument(p)
        \/ ProcessInventoryMovements(p)
        \/ UpdateCounterparty(p)
        \/ Commit(p)
        \/ CommitFail(p)
        \/ Fault(p)
        \/ Return(p)

SpecDisjoint == InitDisjoint /\ [][NextDisjoint]_vars

\* ------------------------------------------------------------------ odd line items
\* Two tenants' products: 1 of tenant 1, 2 of tenant 2 (with stock s2), 3 of
\* tenant 1 and soft-deleted by delete_product; no row has id 4.
TenantItems(s2) ==
    [i \in ProductIds |->
        [exists |-> TRUE, user |-> IF i = 2 THEN 2 ELSE 1,
         stock |-> IF i = 1 THEN MaxStock ELSE IF i = 2 THEN s2 ELSE 1,
         min |-> MinLevel, active |-> i # 3]]
MissingId == 4

\* line items of tenant 1's orders: free-text lines, a product of the other
\* tenant, an inactive one, a missing one, and quantities of 0 and below
EdgeItems ==
    {<<Item(0, 1)>>, <<Item(0, 1), Item(1, 1)>>, <<Item(2, 1)>>, <<Item(3, 1)>>,
     <<Item(MissingId, 1)>>, <<Item(1, 1), Item(MissingId, 1)>>,
     <<Item(1, 0)>>, <<Item(1, -1)>>}
EdgePayloads == {Payload(its, "acme", Num(5)) : its \in EdgeItems}

InitEdge ==
    /\ seqTab = [k \in Keys |-> 0]
    /\ items = TenantItems(MaxStock)
    /\ poolCap = DefaultPool
    /\ InitCommon

NextEdge ==
    \E p \in Procs :
        \/ \E op \in {"sale", "purchase"}, pl \in EdgePayloads : CallOrder(p, op, 1, pl)
        \/ GetNextNumber(p)
        \/ LockItem(p)
        \/ SaveDocument(p)
        \/ ProcessInventoryMovements(p)
        \/ UpdateCounterparty(p)
        \/ Commit(p)
        \/ CommitFail(p)
        \/ Fault(p)
        \/ Return(p)

SpecEdge == InitEdge /\ [][NextEdge]_vars

\* ------------------------------------------------------------------ two tenants
\* Tenant 1 calls every operation on its own product 1 and on product 2, which
\* belongs to tenant 2; tenant 2 sells and adjusts its product 2.
TenantPayloads == {Payload(<<Item(id, 1)>>, "acme", Num(5)) : id \in {1, 2}}

InitTenants ==
    /\ seqTab = [k \in Keys |-> 0]
    /\ \E s2 \in {1, MaxStock} : items = TenantItems(s2)
    /\ poolCap = DefaultPool
    /\ InitCommon

NextTenants ==
    \E p \in Procs :
        \/ \E op \in {"sale", "purchase"}, pl \in TenantPayloads : CallOrder(p, op, 1, pl)
        \/ \E id \in {1, 2, 3, MissingId} : CallInventory(p, "delta", 1, id, -1)
        \/ \E id \in {1, 2} : CallInventory(p, "update", 1, id, 0)
        \/ \E id \in {1, 2} : CallInventory(p, "delete", 1, id, 0)
        \/ CallNext(p, 1, "INV")
        \/ CallOrder(p, "sale", 2, Payload(<<Item(2, 1)>>, "acme", Num(5)))
        \/ \E d \in {-1, 1} : CallInventory(p, "delta", 2, 2, d)
        \/ GetNextNumber(p)
        \/ LockItem(p)
        \/ SaveDocument(p)
        \/ ProcessInventoryMovements(p)
        \/ UpdateCounterparty(p)
        \/ Commit(p)
        \/ UpdateProductRead(p)
        \/ UpdateProductWrite(p)
        \/ UpdateStockDelta(p)
        \/ DeleteProduct(p)
        \/ Return(p)

SpecTenants == InitTenants /\ [][NextTenants]_vars

\* ------------------------------------------------------------------ update_stock_delta, statement by statement
\* a Python bool
Bool(b) == [kind |-> "bool", val |-> b]

\* what update_stock_delta hands back: `return True` / `return False`
Returned(t, v) ==
    [type |-> t, number |-> NoNumber, requested |-> 0, available |-> 0, value |-> v]

\* SELECT name, current_stock, min_stock_level ... WHERE id AND user_id AND
\* is_active = TRUE FOR UPDATE (waits for the row lock); `if not result: return
\* False`; `if new_stock < 0: return False` (the transaction ends, the lock goes)
DeltaSelect(p) ==
    /\ pc[p] = "delta"
    /\ conns < poolCap
    /\ LET id == call[p].prod
           u == call[p].user
       IN  IF ~(RowFor(u, id) /\ items[id].active)
           THEN /\ outcome' = [outcome EXCEPT ![p] = Returned("False", Bool(FALSE))]
                /\ pc' = [pc EXCEPT ![p] = "done"]
                /\ UNCHANGED <<rowLock, conns, loc>>
           ELSE /\ CanLock(p, id)
                /\ IF DeltaRejected(items[id].stock + call[p].qty)
                   THEN /\ outcome' = [outcome EXCEPT ![p] = Returned("False", Bool(FALSE))]
                        /\ pc' = [pc EXCEPT ![p] = "done"]
                        /\ UNCHANGED <<rowLock, conns, loc>>
                   ELSE /\ rowLock' = [rowLock EXCEPT ![id] = p]
                        /\ conns' = conns + 1
                        /\ loc' = [loc EXCEPT ![p] = [@ EXCEPT !.read = items[id].stock]]
                        /\ pc' = [pc EXCEPT ![p] = "delta_update"]
                        /\ outcome' = outcome
    /\ UNCHANGED <<seqTab, dbVars, poolCap, call, tx, calls, seq0, returned, aborted>>

\* UPDATE inventory_items SET current_stock = :new_stock WHERE id AND user_id
DeltaUpdate(p) ==
    /\ pc[p] = "delta_update"
    /\ LET id == call[p].prod
       IN  tx' = [tx EXCEPT ![p] = [@ EXCEPT !.stock[id] = loc[p].read + call[p].qty,
                                             !.wrote = @ \cup {id}]]
    /\ pc' = [pc EXCEPT ![p] = "delta_insert"]
    /\ UNCHANGED <<seqTab, dbVars, rowLock, conns, poolCap, call, loc, outcome, calls,
                   seq0, returned, aborted>>

\* INSERT INTO stock_movements (..., quantity = quantity_delta, ...)
DeltaInsert(p) ==
    /\ pc[p] = "delta_insert"
    /\ tx' = [tx EXCEPT ![p] = [@ EXCEPT !.movs =
                 Append(@, Movement(call[p].user, call[p].prod, call[p].doc, call[p].qty,
                                    NoNumber))]]
    /\ pc' = [pc EXCEPT ![p] = "delta_commit"]
    /\ UNCHANGED <<seqTab, dbVars, rowLock, conns, poolCap, call, loc, outcome, calls,
                   seq0, returned, aborted>>

\* `return True` leaves `with DB_ENGINE.begin()`: COMMIT
DeltaCommit(p) ==
    /\ pc[p] = "delta_commit"
    /\ SetTables(TablesAfterCommit(p))
    /\ tx' = [tx EXCEPT ![p] = NoTx]
    /\ rowLock' = Unlocked(p)
    /\ conns' = conns - 1
    /\ pc' = [pc EXCEPT ![p] = "done"]
    /\ outcome' = [outcome EXCEPT ![p] = Returned("ok", Bool(TRUE))]
    /\ UNCHANGED <<seqTab, poolCap, call, loc, calls, seq0, returned, aborted>>

\* a statement or the COMMIT raises: ROLLBACK, `except Exception: return False`
DeltaFault(p) ==
    /\ pc[p] \in {"delta_update", "delta_insert", "delta_commit"}
    /\ tx' = [tx EXCEPT ![p] = NoTx]
    /\ rowLock' = Unlocked(p)
    /\ conns' = conns - 1
    /\ pc' = [pc EXCEPT ![p] = "done"]
    /\ outcome' = [outcome EXCEPT ![p] = Returned("False", Bool(FALSE))]
    /\ UNCHANGED <<seqTab, dbVars, poolCap, call, loc, calls, seq0, returned, aborted>>

DeltaValues == {-1, 1}

NextDelta ==
    \E p \in Procs :
        \/ \E id \in {1, 2}, d \in DeltaValues : CallInventory(p, "delta", 1, id, d)
        \/ DeltaSelect(p)
        \/ DeltaUpdate(p)
        \/ DeltaInsert(p)
        \/ DeltaCommit(p)
        \/ DeltaFault(p)
        \/ Return(p)

SpecDelta == Init /\ [][NextDelta]_vars

\* ------------------------------------------------------------------ a full connection pool
\* QueuePool.get() gives up after pool_timeout: get_next_number's
\* `with DB_ENGINE.begin()` raises TimeoutError inside the order's try block
PoolTimeout(p) ==
    /\ pc[p] = "number"
    /\ call[p].op \in {"sale", "purchase"}
    /\ conns >= poolCap
    /\ Abort(p, Out("OrderProcessingError", NoNumber, 0, 0))

\* as many callers as the pool has connections
InitPool ==
    /\ seqTab = [k \in Keys |-> 0]
    /\ items = InitialItems(MaxStock, MaxStock)
    /\ poolCap = Cardinality(Procs)
    /\ InitCommon

NextPool ==
    \E p \in Procs :
        \/ \E op \in {"sale", "purchase"}, pl \in DisjointPayloads : CallOrder(p, op, 1, pl)
        \/ GetNextNumber(p)
        \/ LockItem(p)
        \/ SaveDocument(p)
        \/ ProcessInventoryMovements(p)
        \/ UpdateCounterparty(p)
        \/ Commit(p)
        \/ PoolTimeout(p)
        \/ Return(p)

SpecPool == InitPool /\ [][NextPool]_vars

\* ------------------------------------------------------------------ create_po_process
\* NumberGenerator.generate_po_number(user_id): the sequence generator's next
\* number for the tenant's purchase orders
GeneratePoNumber(cur) == UpsertNext(cur)

PoPayloads == {Payload(<<Item(0, 1)>>, name, Num(5)) : name \in {"acme", "bolt"}}

\* the form is read into po_data
CallCreatePo(p, u, pl) ==
    /\ pc[p] = "idle"
    /\ calls < MaxCalls
    /\ calls' = calls + 1
    /\ call' = [call EXCEPT ![p] = [NoCall EXCEPT !.op = "create_po", !.user = u, !.pl = pl,
                                                  !.doc = "PO"]]
    /\ loc' = [loc EXCEPT ![p] = NoLoc]
    /\ outcome' = [outcome EXCEPT ![p] = NoOut]
    /\ pc' = [pc EXCEPT ![p] = "po_generate"]
    /\ UNCHANGED <<seqTab, dbVars, rowLock, conns, poolCap, tx, seq0, returned, aborted>>

\* po_number = NumberGenerator.generate_po_number(user_id);
\* po_data['invoice_number'] = po_number
PoGenerate(p) ==
    /\ pc[p] = "po_generate"
    /\ LET k == KeyOf(p)
           n == GeneratePoNumber(seqTab[k])
       IN  /\ seqTab' = [seqTab EXCEPT ![k] = n]
           /\ returned' = [returned EXCEPT ![k] = Append(@, [n |-> n, number |-> Format("PO", n)])]
           /\ loc' = [loc EXCEPT ![p] = [@ EXCEPT !.number = Format("PO", n), !.n = n]]
    /\ pc' = [pc EXCEPT ![p] = "po_save"]
    /\ UNCHANGED <<dbVars, rowLock, conns, poolCap, call, tx, outcome, calls, seq0, aborted>>

\* save_purchase_order: a fresh generate_po_number, INSERT INTO purchase_orders
\* under it, the supplier upsert, COMMIT
SavePurchaseOrder(p) ==
    /\ pc[p] = "po_save"
    /\ conns < poolCap
    /\ LET k == KeyOf(p)
           u == call[p].user
           n == GeneratePoNumber(seqTab[k])
           name == call[p].pl.client_name
           idx == CpFind(suppliers, u, name)
           cp == [kind |-> IF idx = 0 THEN "ins" ELSE "upd", idx |-> idx, name |-> name,
                  amount |-> GrandTotal(call[p].pl).val]
       IN  /\ seqTab' = [seqTab EXCEPT ![k] = n]
           /\ returned' = [returned EXCEPT ![k] = Append(@, [n |-> n, number |-> Format("PO", n)])]
           /\ porders' = Append(porders, Doc(u, Format("PO", n), call[p].pl))
           /\ suppliers' = CpApply(suppliers, u, cp)
    /\ pc' = [pc EXCEPT ![p] = "po_preview"]
    /\ UNCHANGED <<items, movements, alerts, invoices, customers, rowLock, conns, poolCap,
                   call, loc, tx, outcome, calls, seq0, aborted>>

\* update_stock_on_invoice(..., invoice_number=po_number) (the form's items
\* carry no product_id: nothing to do) and
\* redirect(url_for('po_preview', po_number=po_number))
PoPreview(p) ==
    /\ pc[p] = "po_preview"
    /\ pc' = [pc EXCEPT ![p] = "done"]
    /\ outcome' = [outcome EXCEPT ![p] = Out("ok", loc[p].number, 0, 0)]
    /\ UNCHANGED <<seqTab, dbVars, rowLock, conns, poolCap, call, loc, tx, calls,
                   seq0, returned, aborted>>

NextPo ==
    \E p \in Procs :
        \/ \E u \in Users, pl \in PoPayloads : CallCreatePo(p, u, pl)
        \/ PoGenerate(p)
        \/ SavePurchaseOrder(p)
        \/ PoPreview(p)
        \/ Return(p)

SpecPo == InitOrders /\ [][NextPo]_vars

\* ------------------------------------------------------------------ lock waits under fair scheduling
\* orders whose stocked lines come in ascending product id: no lock cycle
AscendingItems == {<<Item(2, 1)>>, <<Item(1, 1), Item(2, 1)>>}
AscendingPayloads == {Payload(its, "acme", Num(5)) : its \in AscendingItems}

NextLocks ==
    \E p \in Procs :
        \/ \E pl \in AscendingPayloads : CallOrder(p, "sale", 1, pl)
        \/ CallOrder(p, "purchase", 1, Payload(<<Item(2, 1)>>, "acme", Num(5)))
        \/ GetNextNumber(p)
        \/ LockItem(p)
        \/ SaveDocument(p)
        \/ ProcessInventoryMovements(p)
        \/ UpdateCounterparty(p)
        \/ Commit(p)
        \/ CommitFail(p)
        \/ Fault(p)
        \/ Return(p)

\* every statement of a running call is executed in the end; a statement
\* waiting for a row lock is served from PostgreSQL's lock queue when the
\* holder's transaction ends
FairOrder(p) ==
    /\ WF_vars(GetNextNumber(p) \/ SaveDocument(p) \/ ProcessInventoryMovements(p) \/ Commit(p))
    /\ SF_vars(LockItem(p))
    /\ SF_vars(UpdateCounterparty(p))

SpecLocks == InitDisjoint /\ [][NextLocks]_vars /\ \A p \in Procs : FairOrder(p)

\* ================================================================== claims
RECURSIVE SumQty(_, _)
SumQty(movs, id) ==
    IF movs = <<>> THEN 0
    ELSE (IF Head(movs).product = id THEN Head(movs).qty ELSE 0) + SumQty(Tail(movs), id)

\* C1: for every (user_id, doc_type) key whose stored counter was p, the N
\* get_next_number calls made on it so far, in whatever interleaving, drew
\* exactly the numbers p+1 .. p+N, one each, and returned N pairwise distinct
\* formatted numbers, those of p+1 .. p+N.
C1_ContiguousDistinct ==
    \A k \in Keys :
        LET r == returned[k]
            N == Len(r)
        IN  /\ {r[i].n : i \in 1..N} = (seq0[k] + 1)..(seq0[k] + N)
            /\ \A i, j \in 1..N : i # j => r[i].number # r[j].number
            /\ {r[i].number : i \in 1..N} = {Format(k[2], n) : n \in (seq0[k] + 1)..(seq0[k] + N)}
            /\ \A p \in Procs :
                  (call[p].op = "next" /\ outcome[p].type = "ok" /\ KeyOf(p) = k)
                      => \E i \in 1..N : r[i].number = outcome[p].number

\* C1 witness: both callers have called get_next_number on one key that had a
\* row before, and both have returned
C1_Witness ==
    /\ \A p \in Procs : call[p].op = "next" /\ outcome[p].type = "ok"
    /\ KeyOf(1) = KeyOf(2)
    /\ seq0[KeyOf(1)] > 0

\* C2: in every reachable state current_stock of every inventory item is >= 0
\* (a sale that would drive it negative is rejected before any write).
C2_StockNeverNegative ==
    \A i \in ProductIds : items[i].exists => items[i].stock >= 0

\* the scenario of C3: the two callers' sales are the only calls made
SingleLineOn1(p) ==
    /\ call[p].op = "sale"
    /\ Len(call[p].pl.items) = 1
    /\ call[p].pl.items[1].product_id = 1
    /\ ValidateOrderData(call[p].pl) = ""
QtyOf(p) == call[p].pl.items[1].qty
C3_Scenario ==
    /\ calls = 2
    /\ SingleLineOn1(1) /\ SingleLineOn1(2)
    /\ QtyOf(1) <= MaxStock /\ QtyOf(2) <= MaxStock
    /\ QtyOf(1) + QtyOf(2) > MaxStock
\* C3: two sales of one tenant, the only calls made, each a single line on
\* product 1 with quantities q1, q2 <= s and q1 + q2 > s (s the stock before):
\* never both commit; one that fails with InsufficientStockError has read the
\* stock the other left (s minus the other's quantity), the other having
\* committed; and when neither meets an unexpected failure, one commits.
C3_Oversell ==
    C3_Scenario =>
        /\ ~(outcome[1].type = "ok" /\ outcome[2].type = "ok")
        /\ \A p, q \in Procs :
              (p # q /\ outcome[q].type = "InsufficientStockError") =>
                  /\ outcome[p].type = "ok"
                  /\ outcome[q].requested = QtyOf(q)
                  /\ outcome[q].available = MaxStock - QtyOf(p)
                  /\ items[1].stock = MaxStock - QtyOf(p)
        /\ (\A p \in Procs : outcome[p].type \in {"ok", "InsufficientStockError"})
              => \E p \in Procs : outcome[p].type = "ok"
        /\ items[1].stock >= 0

\* C3 witness: the two sales have finished, one committed and the other was
\* refused on the stock the first left
C3_Witness ==
    /\ C3_Scenario
    /\ outcome[1].type = "ok"
    /\ outcome[2].type = "InsufficientStockError"
    /\ outcome[2].available = MaxStock - QtyOf(1)

\* C4: in every committed state, current_stock of every product equals the sum
\* of quantity over its stock_movements rows.
C4_Reconciliation ==
    \A i \in ProductIds : items[i].exists => items[i].stock = SumQty(movements, i)

\* the movement rows an order's line items call for, in item order
RECURSIVE ExpectedMovements(_, _, _, _)
ExpectedMovements(u, its, mt, number) ==
    IF its = <<>> THEN <<>>
    ELSE LET it == Head(its)
             rest == ExpectedMovements(u, Tail(its), mt, number)
         IN  IF it.product_id = 0 THEN rest
             ELSE <<Movement(u, it.product_id, mt,
                             IF mt = "sale" THEN 0 - it.qty ELSE it.qty, number)>> \o rest

MovementsOf(u, number) ==
    SelectSeq(movements, LAMBDA m : m.user = u /\ m.ref = number)

RECURSIVE SumField(_, _, _, _)
SumField(tab, u, name, f) ==
    IF tab = <<>> THEN 0
    ELSE (IF Head(tab).user = u /\ Head(tab).name = name
          THEN Head(tab)[f] ELSE 0) + SumField(Tail(tab), u, name, f)

RECURSIVE SumDocTotals(_, _, _)
SumDocTotals(docs, u, name) ==
    IF docs = <<>> THEN 0
    ELSE (IF Head(docs).user = u /\ Head(docs).client = name THEN Head(docs).total ELSE 0)
         + SumDocTotals(Tail(docs), u, name)

CountDocs(docs, u, name) ==
    Cardinality({i \in 1..Len(docs) : docs[i].user = u /\ docs[i].client = name})

Names(docs, tab) == {docs[i].client : i \in 1..Len(docs)} \cup {tab[i].name : i \in 1..Len(tab)}

AlertsOf(u, id) == SelectSeq(alerts, LAMBDA a : a.user = u /\ a.product = id)

\* every effect of every committed order is there, and nothing of any other
EffectsComplete(docs, tab, mt) ==
    /\ \A i \in 1..Len(docs) :
          MovementsOf(docs[i].user, docs[i].number)
              = ExpectedMovements(docs[i].user, docs[i].data.items, mt, docs[i].number)
    /\ \A j \in 1..Len(movements) :
          movements[j].mtype = mt =>
              \E i \in 1..Len(docs) : /\ docs[i].user = movements[j].user
                                      /\ docs[i].number = movements[j].ref
    /\ \A u \in Users, name \in Names(docs, tab) :
          /\ SumField(tab, u, name, "count") = CountDocs(docs, u, name)
          /\ SumField(tab, u, name, "total") = SumDocTotals(docs, u, name)

C5_State ==
    /\ EffectsComplete(invoices, customers, "sale")
    /\ EffectsComplete(porders, suppliers, "purchase")
    /\ \A i \in ProductIds : items[i].exists =>
          /\ items[i].stock = SumQty(movements, i)
          /\ (\E j \in 1..Len(movements) :
                  movements[j].product = i /\ movements[j].mtype \in {"sale", "purchase"})
              => AlertsOf(items[i].user, i)
                   = IF AlertFor(items[i].stock, items[i].min) = "none" THEN <<>>
                     ELSE <<Alert(items[i].user, i, AlertFor(items[i].stock, items[i].min))>>
          /\ (~\E j \in 1..Len(movements) :
                  movements[j].product = i /\ movements[j].mtype \in {"sale", "purchase"})
              => AlertsOf(items[i].user, i) = <<>>

Commits(p) == pc[p] = "commit" /\ pc'[p] = "done" /\ outcome'[p].type = "ok"
Fails(p) == pc[p] # "done" /\ pc'[p] = "done" /\ outcome'[p].type # "ok"

C5_Step ==
    /\ (\A p \in Procs : ~Commits(p)) => UNCHANGED dbVars
    /\ \A p \in Procs : Fails(p) => UNCHANGED dbVars

\* C5: all-or-nothing.  In every committed state each order row comes with
\* exactly its movements (one per stocked line item), the stock they add up to,
\* the alert re-evaluated for that stock and its counterparty aggregate, and no
\* such effect exists without its order row; a step that is not an order's
\* commit, in particular a call failing at any step of its transaction, leaves
\* inventory_items, stock_movements, stock_alerts, the order tables and the
\* counterparty tables as they were.
C5_AllOrNothing == []C5_State /\ [][C5_Step]_vars

\* C5 witness: an order whose document, stock movements and counterparty
\* upsert were all written has failed at its commit, beside an order of the
\* other caller that committed
C5_Witness ==
    \E p, q \in Procs :
        /\ outcome[p].type = "DatabaseError"
        /\ outcome[q].type = "ok"
        /\ Len(invoices) + Len(porders) = 1
        /\ <<KeyOf(p), loc[p].n>> \in aborted

HasDoc(docs, u, number) == \E i \in 1..Len(docs) : docs[i].user = u /\ docs[i].number = number

C6_State ==
    \A p \in Procs :
        outcome[p].type = "InsufficientStockError" =>
            /\ ~HasDoc(invoices, call[p].user, loc[p].number)
            /\ MovementsOf(call[p].user, loc[p].number) = <<>>
            /\ seqTab[KeyOf(p)] >= loc[p].n
            /\ \E i \in 1..Len(returned[KeyOf(p)]) : returned[KeyOf(p)][i].n = loc[p].n

C6_Step ==
    \A p \in Procs :
        /\ (pc[p] = "number" /\ pc'[p] = "lock" /\ IsSale(p))
              => /\ seqTab' = [seqTab EXCEPT ![KeyOf(p)] = @ + 1]
                 /\ UNCHANGED dbVars
        /\ (pc[p] = "lock" /\ IsSale(p) /\ (pc'[p] # pc[p] \/ loc'[p] # loc[p])
                /\ outcome'[p].type \in {"none", "InsufficientStockError"})
              => UNCHANGED <<seqTab, dbVars>>
        /\ (outcome'[p].type = "InsufficientStockError" /\ outcome[p].type = "none")
              => /\ pc[p] = "lock" /\ IsSale(p)
                 /\ UNCHANGED <<seqTab, dbVars>>

\* C6: a process_sale_invoice call that fails at stock validation with
\* InsufficientStockError leaves no user_invoices row and no stock_movements
\* row of its number, and its steps change no row of inventory_items,
\* stock_movements, stock_alerts, the order tables or customers; what it did
\* change is the (tenant, INV) counter, advanced by one when it drew its number
\* and not taken back by the failure.
C6_InsufficientStockLeavesOnlyCounter == []C6_State /\ [][C6_Step]_vars

\* C6 witness: after one committed sale, a second sale was refused for
\* insufficient stock and its number stays consumed
C6_Witness ==
    \E p \in Procs :
        /\ outcome[p].type = "InsufficientStockError"
        /\ seqTab[KeyOf(p)] = seq0[KeyOf(p)] + 2
        /\ loc[p].n = seqTab[KeyOf(p)]
        /\ Len(invoices) = 1

\* the payloads the claim calls invalid
ClaimedInvalid(pl) ==
    \/ pl.keys = {}
    \/ "items" \notin pl.keys \/ pl.items = <<>>
    \/ "client_name" \notin pl.keys \/ pl.client_name = ""
    \/ ("grand_total" \in pl.keys /\ (pl.grand_total.kind # "num" \/ pl.grand_total.val < 0))

IsOrder(p) == call[p].op \in {"sale", "purchase"}

C7_State ==
    \A p \in Procs :
        (IsOrder(p) /\ ClaimedInvalid(call[p].pl)) =>
            /\ pc[p] = "done"
            /\ outcome[p].type = "InvalidOrderDataError"
            /\ loc[p] = NoLoc
            /\ tx[p] = NoTx

C7_Step ==
    \A p \in Procs :
        (outcome'[p].type = "InvalidOrderDataError" /\ outcome[p].type # "InvalidOrderDataError")
            => /\ pc[p] = "idle"
               /\ UNCHANGED <<seqTab, dbVars, rowLock, conns, returned>>

\* C7: an order call whose payload is empty, has no line item, has no
\* client_name or has a negative or non-numeric grand_total fails with
\* InvalidOrderDataError in its first step, having drawn no number and opened no
\* transaction: the sequence counters and every table are as they were.
C7_InvalidPayloadTouchesNothing == []C7_State /\ [][C7_Step]_vars

\* C7 witness: one caller was refused for an empty items list, the other for a
\* non-numeric grand_total, and no counter has moved
C7_Witness ==
    \E p, q \in Procs :
        /\ outcome[p].type = "InvalidOrderDataError"
        /\ call[p].pl.keys # {} /\ call[p].pl.items = <<>>
        /\ outcome[q].type = "InvalidOrderDataError"
        /\ call[q].pl.grand_total.kind = "text"
        /\ seqTab = seq0

DocsOfKey(k) ==
    LET docs == IF k[2] = "INV" THEN invoices ELSE porders
    IN  Cardinality({i \in 1..Len(docs) : docs[i].user = k[1]})
\* C8: the sequence increment of an order is committed with the order's
\* transaction, not before: the committed counter of a key counts the orders
\* committed on it and nothing of the transactions still open or rolled back.
C8_IncrementCommitsWithOrder ==
    \A k \in Keys : seqTab[k] = seq0[k] + DocsOfKey(k)

\* C9: a number drawn by an order that then failed is never issued again:
\* every number drawn later on that key is strictly greater, and no document
\* is stored under it.
C9_AbortedNumberNeverReissued ==
    \A k \in Keys :
        \A i \in 1..Len(returned[k]) :
            <<k, returned[k][i].n>> \in aborted =>
                /\ \A j \in 1..Len(returned[k]) : j > i => returned[k][j].n > returned[k][i].n
                /\ \A j \in 1..Len(returned[k]) :
                      j # i => returned[k][j].number # returned[k][i].number
                /\ ~HasDoc(IF k[2] = "INV" THEN invoices ELSE porders, k[1],
                           returned[k][i].number)

\* C9 witness: a sale failed after drawing its number and a later call on the
\* same key has drawn one
C9_Witness ==
    \E k \in Keys :
        /\ k[2] = "INV"
        /\ Len(returned[k]) = 2
        /\ <<k, returned[k][1].n>> \in aborted
        /\ \E p \in Procs : Drawn(p) /\ KeyOf(p) = k /\ loc[p].n = returned[k][2].n

UniqueNumbers(docs) ==
    \A i, j \in 1..Len(docs) :
        (i # j /\ docs[i].user = docs[j].user) => docs[i].number # docs[j].number
\* C10: no two user_invoices rows of a tenant carry the same invoice_number
\* and no two purchase_orders rows of a tenant the same po_number.
C10_DocumentNumbersUnique == UniqueNumbers(invoices) /\ UniqueNumbers(porders)

\* C10 witness: two invoices of one tenant are stored
C10_Witness ==
    /\ Len(invoices) = 2
    /\ invoices[1].user = invoices[2].user

\* the last stock_movements row of a product, and whether an order or
\* update_stock_delta wrote it (add_product logs 'initial', update_product
\* 'adjustment')
LastMovement(i) ==
    LET js == {j \in 1..Len(movements) : movements[j].product = i}
    IN  movements[CHOOSE j \in js : \A k \in js : k <= j]
MutatedLast(i) ==
    /\ \E j \in 1..Len(movements) : movements[j].product = i
    /\ LastMovement(i).mtype \notin {"initial", "adjustment"}
ExpectedAlerts(i) ==
    IF items[i].stock = 0 THEN <<Alert(items[i].user, i, "out_of_stock")>>
    ELSE IF 0 < items[i].stock /\ items[i].stock <= items[i].min
         THEN <<Alert(items[i].user, i, "low_stock")>>
    ELSE <<>>
\* C11: once a stock mutation of a product by process_sale_invoice,
\* process_purchase_order or update_stock_delta has committed, stock_alerts
\* holds exactly one alert for the product when 0 <= current_stock <=
\* min_stock_level (out_of_stock at 0, low_stock otherwise) and none otherwise.
C11_AlertMatchesStock ==
    \A i \in ProductIds :
        (items[i].exists /\ MutatedLast(i)) => AlertsOf(items[i].user, i) = ExpectedAlerts(i)

\* C12: in every reachable state, also with concurrent orders on one product,
\* stock_alerts holds at most one row per product.
C12_AtMostOneAlertPerProduct ==
    \A i \in ProductIds :
        Cardinality({j \in 1..Len(alerts) : alerts[j].product = i}) <= 1

\* C12 witness: two sales on product 1 have committed, the first leaving a
\* low_stock alert that the second replaced by out_of_stock
C12_Witness ==
    /\ Len(invoices) = 2
    /\ \A j \in 1..2 : \E k \in 1..Len(invoices[j].data.items) :
           invoices[j].data.items[k].product_id = 1
    /\ AlertsOf(1, 1) = <<Alert(1, 1, "out_of_stock")>>

\* C13: within one order call the inventory row locks are acquired in
\* ascending product_id order, whatever the order of the line items: a row
\* lock is taken only on an id greater than every id the call already holds.
C13_LocksAscending ==
    [][\A p \in Procs : \A id \in ProductIds :
          (rowLock'[id] = p /\ rowLock[id] # p)
              => \A j \in ProductIds : rowLock[j] = p => j < id]_vars

\* each of two orders waits for a row lock the other holds
MutualWait(p, q) ==
    /\ p # q
    /\ Waiting(p) /\ WaitsFor(p) = q
    /\ Waiting(q) /\ WaitsFor(q) = p
\* C14: two concurrent orders of one tenant on overlapping products listed in
\* different orders never reach a state in which each waits for a row lock
\* held by the other.
C14_NoMutualWait == \A p, q \in Procs : ~MutualWait(p, q)

ProductsOf(p) ==
    {call[p].pl.items[i].product_id : i \in 1..Len(call[p].pl.items)} \ {0}

\* two order calls of one tenant, both running, on disjoint sets of products
DisjointOrders(p, q) ==
    /\ p # q
    /\ IsOrder(p) /\ IsOrder(q)
    /\ InTxn(p) /\ InTxn(q)
    /\ call[p].user = call[q].user
    /\ ProductsOf(p) \cap ProductsOf(q) = {}

\* p's FOR UPDATE waits while q holds inventory row locks
LockWaitOn(p, q) == Waiting(p) /\ \E i \in ProductIds : rowLock[i] = q

\* p's UPDATE of its counterparty row waits for q's uncommitted UPDATE of it
CpWaitOn(p, q) ==
    /\ pc[p] = "cust"
    /\ call[q].op = call[p].op
    /\ tx[q].cp.kind = "upd"
    /\ tx[q].cp.idx = CpFind(IF IsSale(p) THEN customers ELSE suppliers,
                             call[p].user, call[p].pl.client_name)

\* C15 (as claimed): two concurrent order calls of one tenant on disjoint
\* product sets never block one another: at no step does one wait for a lock
\* held by the other.
C15_DisjointNeverBlock ==
    \A p, q \in Procs :
        DisjointOrders(p, q) => ~LockWaitOn(p, q) /\ ~CpWaitOn(p, q)

\* C15 (amended): two concurrent order calls of one tenant on disjoint product
\* sets never wait for one another at stock locking, and one waits for the
\* other at the counterparty upsert only when both are of the same kind and
\* name the same counterparty, which has a row already.
C15_DisjointBlockOnlyOnCounterparty ==
    \A p, q \in Procs :
        DisjointOrders(p, q) =>
            /\ ~LockWaitOn(p, q)
            /\ CpWaitOn(p, q) =>
                  /\ call[p].op = call[q].op
                  /\ call[p].pl.client_name = call[q].pl.client_name
                  /\ CpFind(IF IsSale(p) THEN customers ELSE suppliers,
                            call[p].user, call[p].pl.client_name) # 0

\* C15 witness: two sales on different products hold their row locks at the
\* same time, and one waits at the customer row the other has updated
C15_Witness ==
    \E p, q \in Procs :
        /\ DisjointOrders(p, q)
        /\ \E i, j \in ProductIds : i # j /\ rowLock[i] = p /\ rowLock[j] = q
        /\ CpWaitOn(p, q)

\* every counterparty row of a name carries the count and the sum of the
\* committed documents of that name, and a name with documents has a row
AggregateExact(docs, tab) ==
    \A u \in Users, name \in Names(docs, tab) :
        /\ CountDocs(docs, u, name) > 0 => CpFind(tab, u, name) # 0
        /\ \A i \in 1..Len(tab) :
              (tab[i].user = u /\ tab[i].name = name) =>
                  /\ tab[i].count = CountDocs(docs, u, name)
                  /\ tab[i].total = SumDocTotals(docs, u, name)
\* C16: in every committed state, for each tenant and name the customers row
\* has invoice_count equal to the number of committed invoices of that
\* client_name and total_spent equal to the sum of their grand_total, and
\* likewise the suppliers row against the committed purchase orders, also
\* after orders for one name processed concurrently.
C16_AggregateMatchesDocuments ==
    AggregateExact(invoices, customers) /\ AggregateExact(porders, suppliers)

\* PREFIX-0000i, for i < 10
Rendered(prefix, i) == <<prefix, <<0, 0, 0, 0, i>>>>

C17_State ==
    \A k \in Keys :
        seq0[k] = 0 =>
            \A i \in 1..Len(returned[k]) :
                i < 10 => /\ returned[k][i].n = i
                          /\ returned[k][i].number = Rendered(k[2], i)

C17_Step ==
    \A p \in Procs :
        (call[p].op = "next" /\ pc[p] = "number" /\ outcome'[p].type = "ok") =>
            LET k == <<call[p].user, call[p].doc>>
            IN  /\ \A k2 \in Keys \ {k} : seqTab'[k2] = seqTab[k2]
                /\ seqTab'[k] = seqTab[k] + 1
                /\ seqTab[k] = 0 => outcome'[p].number = Rendered(call[p].doc, 1)

\* C17: counters are isolated per (tenant, doc_type): a get_next_number call
\* on a key leaves the counter of every other key unchanged, the first call on
\* a key with no row returns number 1, and the calls on such a key return
\* PREFIX-00001, PREFIX-00002, ... in order, whatever calls are made on the
\* other tenants' and doc types' keys.
C17_CountersIsolated == []C17_State /\ [][C17_Step]_vars

\* C17 witness: two tenants have each drawn their first INV number, and each
\* got INV-00001
C17_Witness ==
    /\ seq0[<<1, "INV">>] = 0 /\ seq0[<<2, "INV">>] = 0
    /\ \A p \in Procs : outcome[p] = Out("ok", Rendered("INV", 1), 0, 0)
    /\ call[1].user # call[2].user

\* C18 (as claimed): the stored counter of a key is mutated only by the +1
\* step of get_next_number: across the SequenceManager operations it never
\* decreases, never changes by a step other than +1, and its row (0 = no row)
\* is never deleted once created.
C18_OnlyIncrement ==
    [][\A k \in Keys : seqTab'[k] = seqTab[k] \/ seqTab'[k] = seqTab[k] + 1]_vars

FinishesOk(p, op) == call[p].op = op /\ pc[p] # "done" /\ pc'[p] = "done" /\ outcome'[p].type = "ok"

\* C18 (amended): the stored counter of a key is mutated only by the +1 step
\* of get_next_number and by reset_sequence, which sets it to the start_number
\* given; get_current_number and failed calls change nothing, and no operation
\* deletes a row once created.
C18_IncrementOrReset ==
    [][/\ \A k \in Keys :
            \/ seqTab'[k] = seqTab[k]
            \/ \E p \in Procs : /\ FinishesOk(p, "next") /\ KeyOf(p) = k
                                /\ seqTab'[k] = seqTab[k] + 1
            \/ \E p \in Procs : /\ FinishesOk(p, "reset") /\ KeyOf(p) = k
                                /\ seqTab'[k] = call[p].qty
       /\ \A p \in Procs : FinishesOk(p, "next") => seqTab'[KeyOf(p)] = seqTab[KeyOf(p)] + 1
       /\ \A p \in Procs : FinishesOk(p, "current") =>
              seqTab' = seqTab /\ loc'[p].read = seqTab[KeyOf(p)]
       /\ \A k \in Keys : seqTab[k] # 0 => seqTab'[k] # 0]_vars

\* C18 witness: a counter that get_next_number had advanced was then set back
\* below its value by reset_sequence
C18_Witness ==
    \E p, q \in Procs :
        /\ call[p].op = "next" /\ outcome[p].type = "ok"
        /\ call[q].op = "reset" /\ outcome[q].type = "ok"
        /\ KeyOf(p) = KeyOf(q)
        /\ seqTab[KeyOf(q)] = call[q].qty
        /\ seqTab[KeyOf(q)] < loc[p].n

\* the quantity an order's line items carry for one product
RECURSIVE SumLines(_, _)
SumLines(its, id) ==
    IF its = <<>> THEN 0
    ELSE (IF Head(its).product_id = id THEN Head(its).qty ELSE 0) + SumLines(Tail(its), id)

C19_State ==
    \A p \in Procs : call[p].op = "purchase" => outcome[p].type # "InsufficientStockError"

C19_Step ==
    \A p \in Procs :
        LET u == call[p].user
            pl == call[p].pl
        IN  /\ (call[p].op = "purchase" /\ pc[p] = "number" /\ pc'[p] = "lock") =>
                  /\ seqTab'[<<u, "PO">>] = seqTab[<<u, "PO">>] + 1
                  /\ seqTab'[<<u, "INV">>] = seqTab[<<u, "INV">>]
                  /\ loc'[p].number = <<"PO", Pad5(seqTab'[<<u, "PO">>])>>
            /\ (call[p].op = "purchase" /\ Commits(p)) =>
                  /\ outcome'[p].number = loc[p].number
                  /\ porders' = Append(porders, Doc(u, loc[p].number, pl))
                  /\ \A i \in ProductIds :
                        items'[i] = [items[i] EXCEPT !.stock = @ + SumLines(pl.items, i)]
                  /\ movements' = movements
                        \o ExpectedMovements(u, pl.items, "purchase", loc[p].number)
                  /\ \A j \in 1..Len(movements') :
                        j > Len(movements) => /\ movements'[j].qty > 0
                                              /\ movements'[j].mtype = "purchase"
                  /\ SumField(suppliers', u, pl.client_name, "count")
                        = SumField(suppliers, u, pl.client_name, "count") + 1
                  /\ SumField(suppliers', u, pl.client_name, "total")
                        = SumField(suppliers, u, pl.client_name, "total") + GrandTotal(pl).val
                  /\ customers' = customers
                  /\ invoices' = invoices

\* C19: process_purchase_order makes no stock-availability check and never
\* fails with InsufficientStockError; when it commits, every line item with a
\* product reference has raised that product's current_stock by its qty with
\* one movement of type purchase and positive quantity, its number was drawn
\* from the PO counter (the INV counter is untouched), the suppliers aggregate
\* of its name has one more order and its total, and customers is unchanged.
C19_PurchaseAddsStock == []C19_State /\ [][C19_Step]_vars

\* C19 witness: after a sale that took stock from product 1, a purchase order
\* on product 1 has committed, its supplier created and its movement logged last
C19_Witness ==
    \E p \in Procs :
        /\ call[p].op = "purchase" /\ outcome[p].type = "ok"
        /\ Len(invoices) = 1 /\ Len(porders) = 1
        /\ movements[Len(movements)] = Movement(1, 1, "purchase", 1, outcome[p].number)
        /\ \E j \in 1..Len(movements) : movements[j].mtype = "sale" /\ movements[j].product = 1
        /\ Len(suppliers) = 1 /\ Len(customers) = 1

C20_Step ==
    \A p \in Procs :
        (call[p].op = "sale" /\ Commits(p)) =>
            LET u == call[p].user
                pl == call[p].pl
                number == outcome'[p].number
            IN  /\ number = loc[p].number
                /\ \E i \in 1..Len(returned[<<u, "INV">>]) :
                      returned[<<u, "INV">>][i].number = number
                /\ Len(invoices') = Len(invoices) + 1
                /\ Cardinality({i \in 1..Len(invoices') :
                       invoices'[i].user = u /\ invoices'[i].number = number}) = 1
                /\ \A i \in 1..Len(invoices) : invoices'[i] = invoices[i]
                /\ movements' = movements \o ExpectedMovements(u, pl.items, "sale", number)
                /\ \A i \in ProductIds :
                      items'[i] = [items[i] EXCEPT !.stock = @ - SumLines(pl.items, i)]

\* C20: when process_sale_invoice succeeds it returns the number it drew,
\* exactly one user_invoices row with that number has been added, and for each
\* line item with a product reference exactly one stock_movements row of type
\* sale with quantity -qty and reference_id that number, the product's
\* current_stock having decreased by qty; no other movement row is added.
C20_SaleWritesItsMovements == [][C20_Step]_vars

\* C20 witness: a sale of two stocked lines has committed and both its
\* movements are logged under the number it returned
C20_Witness ==
    \E p \in Procs :
        /\ call[p].op = "sale" /\ outcome[p].type = "ok"
        /\ Len(call[p].pl.items) = 2
        /\ Len(MovementsOf(call[p].user, outcome[p].number)) = 2
        /\ HasDoc(invoices, call[p].user, outcome[p].number)

\* an order call whose line items are all free-text (no product reference)
FreeTextOnly(p) ==
    IsOrder(p) /\ \A i \in 1..Len(call[p].pl.items) : call[p].pl.items[i].product_id = 0

\* the line the lock loop of p is at is a free-text line
AtFreeTextLine(p) ==
    /\ IsOrder(p) /\ pc[p] = "lock"
    /\ loc[p].idx <= Len(call[p].pl.items)
    /\ call[p].pl.items[loc[p].idx].product_id = 0

C21_State ==
    \A p \in Procs :
        FreeTextOnly(p) =>
            /\ outcome[p].type \notin {"InsufficientStockError", "ProductNotFoundError"}
            /\ \A i \in ProductIds : rowLock[i] # p
            /\ tx[p].wrote = {} /\ tx[p].movs = <<>>
            /\ \A i \in ProductIds : tx[p].alert[i] = "keep"

C21_Step ==
    \A p \in Procs :
        /\ (AtFreeTextLine(p) /\ loc'[p] # loc[p]) =>
              /\ loc'[p].idx = loc[p].idx + 1
              /\ pc'[p] = "lock"
              /\ UNCHANGED <<rowLock, seqTab, dbVars, tx, outcome>>
        /\ (AtFreeTextLine(p) /\ outcome'[p] # outcome[p]) =>
              outcome'[p].type \notin {"InsufficientStockError", "ProductNotFoundError"}
        /\ (IsOrder(p) /\ Commits(p)) =>
              /\ movements' = movements
                    \o ExpectedMovements(call[p].user, call[p].pl.items,
                                         IF IsSale(p) THEN "sale" ELSE "purchase",
                                         loc[p].number)
              /\ \A i \in ProductIds :
                    SumLines(call[p].pl.items, i) = 0 /\ i \notin ProductsOf(p) =>
                        /\ items'[i] = items[i]
                        /\ AlertsOf(items[i].user, i)' = AlertsOf(items[i].user, i)
        /\ (FreeTextOnly(p) /\ Commits(p)) =>
              /\ UNCHANGED <<items, movements, alerts, seqTab>>
              /\ Len(invoices') + Len(porders') = Len(invoices) + Len(porders) + 1
              /\ SumField(customers', call[p].user, call[p].pl.client_name, "count")
                    + SumField(suppliers', call[p].user, call[p].pl.client_name, "count")
                 = SumField(customers, call[p].user, call[p].pl.client_name, "count")
                    + SumField(suppliers, call[p].user, call[p].pl.client_name, "count") + 1
        /\ (FreeTextOnly(p) /\ pc[p] # pc'[p] /\ ~Commits(p)) =>
              /\ UNCHANGED dbVars
              /\ seqTab' # seqTab =>
                    /\ pc[p] = "number"
                    /\ seqTab' = [seqTab EXCEPT ![KeyOf(p)] = @ + 1]

\* C21: line items without a product reference are exempt from stock
\* handling: they are never stock-checked, never cause InsufficientStockError
\* or ProductNotFoundError, take no row lock and leave inventory_items,
\* stock_movements and stock_alerts unchanged; an order made only of such
\* items changes only its order table, its counterparty aggregate and its
\* counter.
C21_FreeTextExempt == []C21_State /\ [][C21_Step]_vars

\* C21 witness: a sale of one free-text line and one stocked line has
\* committed beside a committed order of free-text lines only
C21_Witness ==
    \E p, q \in Procs :
        /\ FreeTextOnly(p) /\ outcome[p].type = "ok"
        /\ IsSale(q) /\ outcome[q].type = "ok" /\ Len(call[q].pl.items) = 2
        /\ call[q].pl.items[1].product_id = 0
        /\ Len(movements) = Len(InitialMovements(TenantItems(MaxStock), ProductIds)) + 1

\* a line item referencing a product that has no row for the tenant or is inactive
Dangling(u, it) ==
    /\ it.product_id # 0
    /\ \/ it.product_id \notin ProductIds
       \/ ~items[it.product_id].exists
       \/ items[it.product_id].user # u
       \/ ~items[it.product_id].active
HasDangling(p) ==
    IsOrder(p) /\ \E i \in 1..Len(call[p].pl.items) : Dangling(call[p].user, call[p].pl.items[i])
AtDanglingLine(p) ==
    /\ HasDangling(p) /\ pc[p] = "lock"
    /\ loc[p].idx <= Len(call[p].pl.items)
    /\ Dangling(call[p].user, call[p].pl.items[loc[p].idx])
StepOf(p) == call'[p] = call[p] /\ (pc'[p] # pc[p] \/ loc'[p] # loc[p])

\* C22 (as claimed): an order call with a line item referencing a product that
\* does not exist for the tenant or is inactive fails with ProductNotFoundError
\* (an unexpected failure aside) and has no side effects: no table, the
\* sequence counter included, differs from its state before the call.
C22_NotFoundNoSideEffects ==
    /\ [](\A p \in Procs :
            (HasDangling(p) /\ pc[p] = "done") =>
                outcome[p].type \in {"ProductNotFoundError", "OrderProcessingError"})
    /\ [][\A p \in Procs :
            (HasDangling(p) /\ StepOf(p)) => UNCHANGED <<seqTab, dbVars>>]_vars

C22_State ==
    \A p \in Procs :
        /\ (HasDangling(p) /\ pc[p] = "done") =>
              outcome[p].type \in {"ProductNotFoundError", "InsufficientStockError",
                                   "OrderProcessingError"}
        /\ outcome[p].type = "ProductNotFoundError" =>
              /\ HasDangling(p)
              /\ ~HasDoc(invoices, call[p].user, loc[p].number)
              /\ ~HasDoc(porders, call[p].user, loc[p].number)
              /\ MovementsOf(call[p].user, loc[p].number) = <<>>
              /\ seqTab[KeyOf(p)] >= loc[p].n
              /\ loc[p].n > seq0[KeyOf(p)]

C22_Step ==
    \A p \in Procs :
        /\ (HasDangling(p) /\ StepOf(p)) =>
              /\ UNCHANGED dbVars
              /\ seqTab' # seqTab => /\ pc[p] = "number"
                                     /\ seqTab' = [seqTab EXCEPT ![KeyOf(p)] = @ + 1]
        /\ (AtDanglingLine(p) /\ StepOf(p) /\ outcome'[p].type # "OrderProcessingError") =>
              /\ outcome'[p].type = "ProductNotFoundError"
              /\ UNCHANGED <<seqTab, dbVars>>

\* C22 (amended): an order call with a line item referencing a product that
\* does not exist for the tenant or is inactive never commits; its lock loop
\* raises ProductNotFoundError on reaching that line, and the failure leaves
\* every table as it was before the call except the sequence counter, which
\* stays advanced by the one number the call drew.
C22_NotFoundLeavesOnlyCounter == []C22_State /\ [][C22_Step]_vars

\* C22 witness: one order was refused for an inactive product and one for a
\* product of the other tenant, and both numbers stay consumed
C22_Witness ==
    \E p, q \in Procs :
        /\ outcome[p].type = "ProductNotFoundError" /\ call[p].pl.items[1].product_id = 3
        /\ outcome[q].type = "ProductNotFoundError" /\ call[q].pl.items[1].product_id = 2
        /\ KeyOf(p) = KeyOf(q)
        /\ seqTab[KeyOf(p)] = seq0[KeyOf(p)] + 2
        /\ Len(invoices) + Len(porders) = 0

\* the rows of a table that belong to tenants other than u
OthersRows(tab, u) == SelectSeq(tab, LAMBDA r : r.user # u)

\* the tenant a step of caller p acts for
ActingUser(p) == IF call[p].op = "none" THEN call'[p].user ELSE call[p].user

\* the product a call names belongs to another tenant
NamesForeign(p) ==
    \/ /\ IsOrder(p)
       /\ \E i \in 1..Len(call[p].pl.items) :
             LET id == call[p].pl.items[i].product_id
             IN  id \in ProductIds /\ items[id].exists /\ items[id].user # call[p].user
    \/ /\ call[p].op \in {"delta", "update", "delete"}
       /\ call[p].prod \in ProductIds
       /\ items[call[p].prod].exists
       /\ items[call[p].prod].user # call[p].user

C23_State ==
    \A p \in Procs :
        /\ (NamesForeign(p) /\ pc[p] = "done") =>
              outcome[p].type = IF IsOrder(p) THEN "ProductNotFoundError" ELSE "False"
        /\ NamesForeign(p) => \A i \in ProductIds : rowLock[i] # p
        /\ \A q \in Procs :
              (Waiting(p) /\ WaitsFor(p) = q) => call[p].user = call[q].user

C23_Step ==
    \A p \in Procs :
        (pc'[p] # pc[p] \/ loc'[p] # loc[p]) =>
            LET u == ActingUser(p)
            IN  /\ \A i \in ProductIds : items[i].user # u => items'[i] = items[i]
                /\ OthersRows(movements', u) = OthersRows(movements, u)
                /\ OthersRows(alerts', u) = OthersRows(alerts, u)
                /\ OthersRows(invoices', u) = OthersRows(invoices, u)
                /\ OthersRows(porders', u) = OthersRows(porders, u)
                /\ OthersRows(customers', u) = OthersRows(customers, u)
                /\ OthersRows(suppliers', u) = OthersRows(suppliers, u)
                /\ \A k \in Keys : k[1] # u => seqTab'[k] = seqTab[k]
                /\ \A j \in 1..Len(movements') :
                      j > Len(movements) =>
                          /\ movements'[j].user = u
                          /\ items[movements'[j].product].user = u

\* C23: tenant isolation.  No step of an operation invoked for one tenant
\* (get_next_number, process_sale_invoice, process_purchase_order,
\* update_stock_delta, update_product, delete_product) changes an inventory
\* item, stock movement, stock alert, document, counterparty or sequence row
\* of another tenant, also when it names a product id the other tenant owns:
\* such a call ends as for a product that does not exist (ProductNotFoundError,
\* or False from the inventory manager), whatever the other tenant's stock,
\* and never takes or waits for a lock on the other tenant's row.
C23_TenantIsolation == []C23_State /\ [][C23_Step]_vars

\* C23 witness: tenant 1's sale naming tenant 2's product was refused while a
\* sale of tenant 2 held the lock on that product
C23_Witness ==
    \E p, q \in Procs :
        /\ call[p].user = 1 /\ IsSale(p) /\ call[p].pl.items[1].product_id = 2
        /\ outcome[p].type = "ProductNotFoundError"
        /\ call[q].user = 2 /\ rowLock[2] = q

\* C24: every failing process_sale_invoice / process_purchase_order call
\* surfaces exactly one of InvalidOrderDataError, ProductNotFoundError,
\* InsufficientStockError or OrderProcessingError; every failure after
\* validation that is not a business-rule error, a failure of the final commit
\* included, surfaces as OrderProcessingError.
C24_TypedFailures ==
    \A p \in Procs :
        (IsOrder(p) /\ pc[p] = "done" /\ outcome[p].type # "ok") =>
            outcome[p].type \in {"InvalidOrderDataError", "ProductNotFoundError",
                                 "InsufficientStockError", "OrderProcessingError"}

\* the number most recently issued on a key (the stored counter before the
\* run when none was drawn since)
LastIssued(k) ==
    IF returned[k] = <<>> THEN seq0[k] ELSE returned[k][Len(returned[k])].n

C25_State ==
    \A k \in Keys :
        /\ seqTab[k] = LastIssued(k)
        /\ \A i \in 1..Len(returned[k]) : returned[k][i].n = seq0[k] + i

C25_Step ==
    \A p \in Procs :
        (call[p].op = "current" /\ pc[p] = "current" /\ pc'[p] = "done") =>
            /\ UNCHANGED <<seqTab, returned, dbVars>>
            /\ loc'[p].read = IF seqTab[KeyOf(p)] = 0 THEN 0 ELSE LastIssued(KeyOf(p))

\* C25: get_current_number is read-only: it changes no counter, so the
\* get_next_number calls it is interleaved with still draw seq0+1, seq0+2, ...;
\* it returns 0 for a key with no row and otherwise the number most recently
\* issued for the key.
C25_CurrentIsReadOnly == []C25_State /\ [][C25_Step]_vars

\* C25 witness: get_current_number has returned the number the other caller
\* had just drawn on the same key
C25_Witness ==
    \E p, q \in Procs :
        /\ call[p].op = "current" /\ pc[p] = "done"
        /\ call[q].op = "next" /\ outcome[q].type = "ok"
        /\ KeyOf(p) = KeyOf(q)
        /\ loc[p].read = loc[q].n
        /\ loc[p].read > seq0[KeyOf(p)]

\* the order of the steps of process_sale_invoice
SaleOrder ==
    {<<"idle", "number">>, <<"number", "lock">>, <<"lock", "save">>, <<"save", "move">>,
     <<"move", "cust">>, <<"cust", "commit">>, <<"commit", "done">>, <<"done", "idle">>}

StockedLines(p) ==
    {i \in 1..Len(call[p].pl.items) : call[p].pl.items[i].product_id # 0}

\* every stocked line of p's order is locked by p and was validated against
\* the stock of its row
LockedAndValidated(p) ==
    /\ loc[p].idx > Len(call[p].pl.items)
    /\ \A i \in StockedLines(p) :
          LET id == call[p].pl.items[i].product_id
          IN  /\ rowLock[id] = p
              /\ items[id].active /\ items[id].user = call[p].user
              /\ tx[p].wrote = {} => call[p].pl.items[i].qty <= items[id].stock

C26_State ==
    \A p \in Procs :
        IsSale(p) =>
            /\ pc[p] \in {"number", "lock", "save", "move", "cust", "commit"}
                  => ~ClaimedInvalid(call[p].pl)
            /\ loc[p].number # NoNumber => pc[p] \notin {"idle", "number"}
            /\ pc[p] \in {"lock", "save", "move", "cust", "commit"} => loc[p].number # NoNumber
            /\ tx[p].docs # <<>> <=> pc[p] \in {"move", "cust", "commit"}
            /\ pc[p] \in {"save", "move", "cust", "commit"} => LockedAndValidated(p)
            /\ (tx[p].wrote # {} \/ tx[p].movs # <<>>) => pc[p] \in {"cust", "commit"}
            /\ pc[p] \in {"cust", "commit"} =>
                  tx[p].movs = ExpectedMovements(call[p].user, call[p].pl.items, "sale",
                                                 loc[p].number)
            /\ tx[p].cp.kind # "none" <=> pc[p] = "commit"
            /\ Len(tx[p].docs) <= 1

C26_Step ==
    \A p \in Procs :
        /\ (IsSale(p) /\ pc'[p] # pc[p] /\ outcome'[p].type = "ok") =>
              pc[p] = "commit" /\ pc'[p] = "done"
        /\ ((IsSale(p) \/ (pc[p] = "idle" /\ call'[p].op = "sale"))
                /\ pc'[p] # pc[p] /\ outcome'[p].type \in {"none", "ok"}) =>
              <<pc[p], pc'[p]>> \in SaleOrder

\* C26: in every successful process_sale_invoice run the steps happen in the
\* order validate, number assigned, stock rows locked and validated, order row
\* persisted, stock deltas applied, customer upserted, commit, each once and
\* none skipped: no stock is written before every stocked item has been locked
\* and validated, and no order row is persisted before stock validation has
\* passed.
C26_SaleStepOrder == []C26_State /\ [][C26_Step]_vars

\* C26 witness: a sale of two stocked lines stands before its commit, holding
\* both row locks, with its order row, both movements and its customer upsert
\* written
C26_Witness ==
    \E p \in Procs :
        /\ IsSale(p) /\ pc[p] = "commit"
        /\ Cardinality({i \in ProductIds : rowLock[i] = p}) = 2
        /\ Len(tx[p].docs) = 1 /\ Len(tx[p].movs) = 2 /\ tx[p].cp.kind = "ins"

C27_Step ==
    \A p \in Procs :
        (call[p].op = "update" /\ pc[p] = "update_write" /\ pc'[p] = "done"
            /\ call[p].qty # -1) =>
            LET id == call[p].prod
            IN  /\ items'[id].stock = call[p].qty
                /\ SumQty(movements', id) - SumQty(movements, id)
                      = items'[id].stock - items[id].stock

\* C27: update_product given current_stock computes delta = target - current
\* under the same row lock as its write: when its write happens the product's
\* stock becomes the target and the movement it logs is exactly the change of
\* the stock, whatever sale, purchase or update_stock_delta ran beside it.
C27_AdjustmentUnderLock == [][C27_Step]_vars

C28_Step ==
    \A p \in Procs :
        (IsSale(p) /\ Commits(p)) =>
            \A i \in ProductIds :
                items[i].exists /\ SumLines(call[p].pl.items, i) > 0 =>
                    /\ SumLines(call[p].pl.items, i) <= items[i].stock
                    /\ items'[i].stock = items[i].stock - SumLines(call[p].pl.items, i)

\* C28: process_sale_invoice commits a sale whose line items name one product
\* several times only if the total quantity of those lines does not exceed the
\* product's current stock (the cumulative demand of the order, not each line
\* separately, is checked).
C28_CumulativeDemandChecked == [][C28_Step]_vars

C29_State ==
    \A k \in 1..Len(movements) :
        /\ movements[k].mtype = "sale" => movements[k].qty < 0
        /\ movements[k].mtype = "purchase" => movements[k].qty > 0

C29_Step ==
    \A p \in Procs :
        Commits(p) =>
            \A i \in ProductIds :
                /\ IsSale(p) => items'[i].stock <= items[i].stock
                /\ call[p].op = "purchase" => items'[i].stock >= items[i].stock

\* C29: for every payload that passes _validate_order_data, line items of zero
\* or negative qty included, a committed sale never increases a product's
\* current_stock and a committed purchase never decreases it; every sale
\* movement has quantity < 0 and every purchase movement quantity > 0.
C29_SignsRespected == []C29_State /\ [][C29_Step]_vars

\* update_stock_delta has to refuse the call of p in the current state
MustReject(p) ==
    LET id == call[p].prod
    IN  \/ id \notin ProductIds
        \/ ~items[id].exists
        \/ items[id].user # call[p].user
        \/ ~items[id].active
        \/ items[id].stock + call[p].qty < 0

C30_Step ==
    \A p \in Procs :
        (call[p].op = "delta" /\ pc[p] = "delta" /\ pc'[p] = "done") =>
            /\ MustReject(p) => outcome'[p].type = "False"
            /\ outcome'[p].type = "False" => UNCHANGED <<items, movements, alerts>>
            /\ outcome'[p].type \in {"False", "ok"}

\* C30: update_stock_delta rejects without writing: when current_stock +
\* quantity_delta < 0, or the product is missing, inactive or owned by another
\* tenant, it returns failure and current_stock, stock_movements and
\* stock_alerts are exactly as before the call.
C30_DeltaRejectsWithoutWriting == [][C30_Step]_vars

\* C30 witness: update_stock_delta was refused because the caller's own active
\* product would have gone below zero
C30_Witness ==
    \E p \in Procs :
        /\ call[p].op = "delta" /\ pc[p] = "done" /\ outcome[p].type = "False"
        /\ call[p].prod \in ProductIds
        /\ items[call[p].prod].exists /\ items[call[p].prod].active
        /\ items[call[p].prod].user = call[p].user
        /\ items[call[p].prod].stock + call[p].qty < 0

DeltaCommits(p) == pc[p] = "delta_commit" /\ pc'[p] = "done" /\ outcome'[p].type = "ok"

C31_State ==
    /\ \A i \in ProductIds :
          items[i].exists => items[i].stock = SumQty(movements, i) /\ items[i].stock >= 0
    /\ \A i \in ProductIds, p, q \in Procs :
          (i \in tx[p].wrote /\ i \in tx[q].wrote) => p = q

C31_Step ==
    /\ \A p \in Procs :
          DeltaCommits(p) =>
              LET id == call[p].prod
              IN  /\ items' = [items EXCEPT ![id] =
                                  [@ EXCEPT !.stock = items[id].stock + call[p].qty]]
                  /\ movements' = Append(movements,
                        Movement(call[p].user, id, call[p].doc, call[p].qty, NoNumber))
    /\ (\A p \in Procs : ~DeltaCommits(p)) => UNCHANGED <<items, movements>>

\* C31: a successful update_stock_delta sets current_stock to old +
\* quantity_delta and appends exactly one stock_movements row of quantity
\* quantity_delta, atomically: the committed tables change only at its commit
\* and then both at once, never one without the other, and concurrent calls on
\* one product give the stock and movements of a serial execution (each commit
\* adds its delta to the stock committed just before it).
C31_DeltaAtomic == []C31_State /\ [][C31_Step]_vars

\* C31 witness: two update_stock_delta calls on product 1 overlapped -- one
\* has committed while the other holds the row lock with its UPDATE and INSERT
\* still uncommitted
C31_Witness ==
    \E p, q \in Procs :
        /\ p # q
        /\ call[p].op = "delta" /\ pc[p] = "done" /\ outcome[p].type = "ok"
        /\ call[q].op = "delta" /\ pc[q] = "delta_commit"
        /\ call[p].prod = 1 /\ call[q].prod = 1
        /\ rowLock[1] = q /\ Len(tx[q].movs) = 1
        /\ items[1].stock = MaxStock + call[p].qty

OneRowPerName(tab) ==
    \A i, j \in 1..Len(tab) :
        (tab[i].user = tab[j].user /\ tab[i].name = tab[j].name) => i = j

\* C32: in every reachable state there is at most one customers row per
\* (user_id, name) and at most one suppliers row per (user_id, name), also after
\* two concurrent first orders that name the same new counterparty.
C32_OneCounterpartyRow == OneRowPerName(customers) /\ OneRowPerName(suppliers)

\* every connection of the pool is held by an order that waits for one more to
\* run get_next_number
PoolStarved ==
    /\ conns >= poolCap
    /\ \E p \in Procs : pc[p] = "number"
    /\ \A p \in Procs : InTxn(p) => pc[p] = "number"

\* C33: an order-processing call never needs a second database connection
\* while holding its transaction's connection: with a pool of capacity K, K
\* concurrent process_sale_invoice / process_purchase_order calls cannot reach
\* a state where each holds one connection and waits for another to run
\* get_next_number.
C33_NoPoolStarvation == ~PoolStarved

\* the number of document d is one of the numbers 1..c under the prefix
NumberWithin(d, prefix, c) == \E n \in 1..c : d.number = Format(prefix, n)

\* C34: without reset_sequence, the number of every committed invoice
\* (purchase order) of a tenant lies between 1 and the committed value of that
\* tenant's INV (PO) counter: no persisted document carries a number the counter
\* has not yet committed.
C34_NumbersWithinCounter ==
    /\ \A i \in 1..Len(invoices) :
          NumberWithin(invoices[i], "INV", seqTab[<<invoices[i].user, "INV">>])
    /\ \A i \in 1..Len(porders) :
          NumberWithin(porders[i], "PO", seqTab[<<porders[i].user, "PO">>])

\* C34 witness: an invoice and a purchase order are committed, the invoice
\* under the newest number of its tenant's INV counter
C34_Witness ==
    /\ Len(invoices) = 1 /\ Len(porders) = 1
    /\ invoices[1].number = Format("INV", seqTab[<<invoices[1].user, "INV">>])
    /\ NumberWithin(porders[1], "PO", seqTab[<<porders[1].user, "PO">>])

C35_State ==
    \A p \in Procs :
        (call[p].op = "create_po" /\ pc[p] = "done") =>
            \E i \in 1..Len(porders) :
                porders[i].user = call[p].user /\ porders[i].number = outcome[p].number

C35_Step ==
    \A p \in Procs :
        (call[p].op = "create_po" /\ pc[p] = "po_save" /\ pc'[p] = "po_preview") =>
            /\ porders' = Append(porders, Doc(call[p].user, loc[p].number, call[p].pl))
            /\ seqTab' = seqTab

\* C35: there is a single point of number assignment per purchase order: in
\* create_po_process the PO number generated upstream, which is the preview
\* key and stock-movement reference, is the number under which
\* save_purchase_order persists the order, and one purchase order consumes
\* exactly one generated number.
C35_SinglePointOfAssignment == []C35_State /\ [][C35_Step]_vars

\* p's FOR UPDATE on row i is blocked by another order's transaction
BlockedOn(p, i) ==
    /\ pc[p] = "lock"
    /\ loc[p].idx <= Len(call[p].pl.items)
    /\ call[p].pl.items[loc[p].idx].product_id = i
    /\ rowLock[i] \notin {NoProc, p}

C36_State ==
    \A i \in ProductIds :
        rowLock[i] # NoProc =>
            /\ call[rowLock[i]].op \in {"sale", "purchase"}
            /\ pc[rowLock[i]] \in {"lock", "save", "move", "cust", "commit"}

C36_Step ==
    \A p \in Procs :
        (pc[p] # "done" /\ pc'[p] = "done") => \A i \in ProductIds : rowLock'[i] # p

\* C36: lock release and progress.  Every row lock a call has taken is
\* released when its transaction ends, by commit or by any failure, and a call
\* blocked on a row lock held by another order's transaction eventually holds
\* the lock itself (or has ended), under fair scheduling and without lock
\* cycles.
C36_LocksReleasedAndGranted ==
    /\ []C36_State
    /\ [][C36_Step]_vars
    /\ \A p \in Procs : \A i \in ProductIds :
          BlockedOn(p, i) ~> (rowLock[i] = p \/ pc[p] = "done")

\* C36 witness: a sale holding row 1 has taken row 2 as well, after the
\* purchase that held row 2 ended in a failure
C36_Witness ==
    \E p, q \in Procs :
        /\ p # q
        /\ IsSale(p) /\ rowLock[1] = p /\ rowLock[2] = p
        /\ pc[q] = "done" /\ call[q].op = "purchase"
        /\ outcome[q].type \in {"OrderProcessingError", "DatabaseError"}

Inactive(i) == items[i].exists /\ ~items[i].active

C37_Step ==
    /\ \A p \in Procs :
          (call[p].op = "delete" /\ pc[p] = "delete" /\ pc'[p] = "done") =>
              LET id == call[p].prod
              IN  /\ movements' = movements
                  /\ \A i \in ProductIds :
                        /\ items'[i].exists = items[i].exists
                        /\ items'[i].stock = items[i].stock
                        /\ i # id => items'[i] = items[i]
                  /\ (RowFor(call[p].user, id) /\ ~items[id].active) =>
                        outcome'[p].type = "False" /\ items' = items
                  /\ outcome'[p].type = "ok" => ~items'[id].active
    /\ \A p \in Procs :
          (IsOrder(p) /\ Commits(p)) =>
              \A k \in 1..Len(call[p].pl.items) :
                  LET id == call[p].pl.items[k].product_id
                  IN  id \in ProductIds => ~Inactive(id)
    /\ \A i \in ProductIds : Inactive(i) => items'[i] = items[i]

\* C37: delete_product is a soft delete: it only flips is_active to FALSE and
\* leaves the item row, its current_stock and its movements; a second
\* delete_product returns False and changes nothing; afterwards no order
\* referencing the product commits and update_stock_delta on it fails, so the
\* stock of an inactive product never changes.
C37_SoftDeleteFreezesStock == [][C37_Step]_vars

IsPrefix(a, b) == Len(a) <= Len(b) /\ \A j \in 1..Len(a) : a[j] = b[j]

\* the stock_movements rows of product i a step has added
NewRows(i) ==
    Cardinality({j \in (Len(movements) + 1)..Len(movements') : movements'[j].product = i})

\* the current_stock of product i as committed; 0 before the row exists
Committed(its, i) == IF its[i].exists THEN its[i].stock ELSE 0

C38_Step ==
    /\ IsPrefix(movements, movements')
    /\ \A i \in ProductIds :
          Committed(items', i) # Committed(items, i) =>
              IF \E p \in Procs : IsOrder(p) /\ Commits(p)
              THEN \E p \in Procs :
                      /\ IsOrder(p) /\ Commits(p)
                      /\ NewRows(i) = Cardinality({k \in 1..Len(call[p].pl.items) :
                                                      call[p].pl.items[k].product_id = i})
              ELSE NewRows(i) = 1

\* C38: stock_movements is append-only: no operation of the order processor
\* or the inventory manager updates or deletes a committed movement row, so
\* the committed rows only grow and every row stays as it was written; every
\* committed change of current_stock comes with exactly one new row per stock
\* write (one per stocked line of an order, one for add_product,
\* update_product and update_stock_delta).
C38_MovementsAppendOnly == [][C38_Step]_vars

\* C38 witness: the log holds the product's initial row, then an adjustment by
\* update_product, then a sale
C38_Witness ==
    \E j, k \in 1..Len(movements) :
        /\ j < k
        /\ movements[1].mtype = "initial"
        /\ movements[j].mtype = "adjustment" /\ movements[k].mtype = "sale"
        /\ movements[j].product = movements[k].product

C39_Step ==
    \A p \in Procs :
        (call[p].op = "delta" /\ pc[p] = "delta_commit" /\ pc'[p] = "done"
            /\ outcome'[p].type = "ok") =>
            /\ outcome'[p].value.kind = "num"
            /\ outcome'[p].value.val = items'[call[p].prod].stock

\* C39: on success update_stock_delta returns the new stock value, old
\* current_stock + quantity_delta, for every product and delta with a
\* non-negative result.
C39_ReturnsNewStock == [][C39_Step]_vars

====
